---- MODULE Spec2Model ----
(***************************************************************************)
(* Orchestration core of rrretsuf/aia: the task store and priority queues  *)
(* of backend/app/core/task_manager.py, the agents that call it, and the   *)
(* AgentFactory of backend/app/agents/agent_factory.py.                    *)
(*                                                                         *)
(* Reading of the source.  Every coroutine is cut at its awaits: one       *)
(* action is the effect of one awaited store or cache call together with   *)
(* the synchronous code that follows it up to the next await.  Values are  *)
(* modelled as written (string constants, the fields an update writes, the *)
(* value a function returns).  Three names in the source resolve to        *)
(* nothing (task_type in submit_task, self.activate_agents and             *)
(* self.agent_counter in AgentFactory); they are read as the parameter the *)
(* callers pass and as the registry and counter the class keeps.           *)
(*                                                                         *)
(* The module-level store and cache functions task_manager imports         *)
(* (create_task, get_task, update_task, push_task, pop_task, ...) are read *)
(* as the DatabaseManager and RedisManager methods of the same purpose.    *)
(* The queue push_task uses when none is named is not in the source: it is *)
(* chosen at Init among the queue names.  The agents that call claim_task, *)
(* complete_task and decompose_task are not in the source either: an agent *)
(* completes, fails or decomposes only a task it holds (Held).             *)
(*                                                                         *)
(* The agent runtime of backend/app/agents/base_agent.py works on the      *)
(* SharedState of backend/app/communication/shared_state.py and its queue  *)
(* "queue:tasks", not on task_manager.  Its loop, the task body it starts  *)
(* with asyncio.create_task and a stop() call are separate coroutines of   *)
(* one agent.  get_tasks_for_agent is read as claim_next_task, task.result *)
(* as the results field of Task, and self.shared_state as set; the         *)
(* broadcast that ends _complete_task and _fail_task may raise.            *)
(*                                                                         *)
(* Further sections model the agent statuses and the messages SharedState  *)
(* keeps (table rows and cache entries, with the calls that may fail       *)
(* chosen nondeterministically), and the [CFG ...] header brain_hive.py    *)
(* writes and worker_agent.py parses, character by character.  The last    *)
(* sections model process_task of the orchestrator up to the write of      *)
(* _execute_task that follows it, shrink_idle beside running agents, and   *)
(* two agents of one holon polling their messages.                         *)
(*                                                                         *)
(* Text is a sequence of string tokens, so that concatenation and split    *)
(* are computed: the id "u1" is <<"u1">>, "u1_synthesis" is                *)
(* <<"u1", "_synthesis">>.                                                 *)
(***************************************************************************)
EXTENDS Integers, Sequences, FiniteSets, TLC

\* ------------------------------------------------------------------ bounds
MaxPrimary == 1    \* submit_task calls made by clients
MaxSub == 2        \* descriptions passed to one decompose_task call
MaxQueued == 2     \* submit_task calls behind the queues of SpecClaim
MaxClaims == 3     \* claim_task calls of Spec that find an entry
MaxCounter == 3    \* agents one AgentFactory spawns
max_agents == 2    \* settings.max_agents
MaxAdds == 3       \* add_task_to_queue calls per queue of SpecQueue
MaxCalls == 2      \* submissions of SpecFault, failed ones included
MaxSpawned == 2    \* agents the AgentFactory of SpecLifecycle spawns
MaxMessages == 2   \* messages send_message stores in SpecMessages
MaxFieldLen == 1   \* characters of a directive's name, role and model
MaxPromptLen == 2  \* characters of a directive's system prompt
MaxTaskLen == 1    \* characters of a task text
MaxAssignments == 3 \* assignments in a planning response

Agents == {"a1", "a2"}
Clients == {"client"}
Callers == {"f1", "f2"}    \* callers of the AgentFactory
Procs == Agents \cup Clients

QueueNames == {"planner_queue", "research_queue", "task_queue"}
AgentTypes == {"planner", "research"}
Priorities == {3, 5, 9}
SubmitPriorities == {9}

MaxUuid == MaxPrimary * (1 + MaxSub)   \* ids submit_task draws at most

NoId == <<>>                 \* None where an id is expected
Null == <<"null">>           \* a null column
Uuid(n) == <<"u" \o ToString(n)>>
EntryUuid(n) == <<"x" \o ToString(n)>>

\* ------------------------------------------------------- text conversions
\* f"SYNTHESIZE: {parent_task_id}"
SynthesisRequest(parent_task_id) == <<"SYNTHESIZE", ":", " ">> \o parent_task_id

\* parent_task_id + "_synthesis"
SynthesisId(parent_task_id) == parent_task_id \o <<"_synthesis">>

\* human_request.startswith("SYNTHESIZE")
StartsWithSynthesize(text) == Len(text) >= 1 /\ text[1] = "SYNTHESIZE"

RECURSIVE SplitColon(_, _)
\* text.split(":") with cur the piece being read: the sequence of pieces
SplitColon(text, cur) ==
    IF text = <<>> THEN <<cur>>
    ELSE IF Head(text) = ":" THEN <<cur>> \o SplitColon(Tail(text), <<>>)
    ELSE SplitColon(Tail(text), Append(cur, Head(text)))

\* human_request.split(":")[1]   (Python indexes from 0)
ParseSynthesize(text) == SplitColon(text, <<>>)[2]

\* ------------------------------------------------------------ sorted sets
EmptyZ == [m \in {} |-> 0]

\* ZADD key {member: score}: a member already present only gets the score
ZAdd(z, m, score) == [x \in DOMAIN z \cup {m} |-> IF x = m THEN score ELSE z[x]]

\* the members of the lowest score: what a pop from the other end returns
ZMaxMembersLowest(z) == {m \in DOMAIN z : \A x \in DOMAIN z : z[x] >= z[m]}

\* the members ZPOPMAX may return: those of the highest score (among equal
\* scores Redis takes the greatest member, and the members carry random uuids)
ZMaxMembers(z) == {m \in DOMAIN z : \A x \in DOMAIN z : z[x] <= z[m]}

\* a read of the top member that leaves it in the set
ZRemKeep(z, m) == z

\* the removal ZPOPMAX makes
ZRem(z, m) == [x \in DOMAIN z \ {m} |-> z[x]]

\* ---------------------------------------------------------- durable store
NewTask(human_request, priority, task_type) ==
    [human_request |-> human_request, status |-> "pending", priority |-> priority,
     task_type |-> task_type, assigned_agents |-> <<>>, subtasks |-> <<>>,
     parent_task_id |-> NoId, results |-> Null, progress |-> 0,
     final_report |-> Null]

\* table('tasks').insert(task_data)
InsertTask(T, id, rec) == [x \in DOMAIN T \cup {id} |-> IF x = id THEN rec ELSE T[x]]

\* table('tasks').select("*").eq('id', task_id): is there a row
HasTask(T, id) == id \in DOMAIN T

\* queue_name = "planner_queue" if task_type == "human_requst" else "research_queue"
SubmitQueue(task_type) ==
    IF task_type = "human_requst" THEN "planner_queue" ELSE "research_queue"

\* queue_name = "planner_queue" if agent_type == "planner" else "research_queue"
ClaimQueue(agent_type) ==
    IF agent_type = "planner" THEN "planner_queue" ELSE "research_queue"

\* push_task(task_data, priority, queue_name)
PushTask(Q, q, id, priority) == [Q EXCEPT ![q] = ZAdd(Q[q], id, priority)]

\* the fields claim_task writes
ClaimFields(rec, agent_id) ==
    [rec EXCEPT !.status = "in_progress", !.assigned_agents = <<agent_id>>]

\* the value claim_task returns once it has loaded and updated the task
ClaimReturn(task_id) == NoId

\* json.dumps(results)
JsonDumps(value) == <<"json">> \o value

\* json.loads(text)
JsonLoads(text) == Tail(text)

\* an update that leaves progress as it was
CompleteFieldsNoProgress(rec, results) ==
    [rec EXCEPT !.status = "completed", !.results = JsonDumps(results)]

\* the fields complete_task writes
CompleteFields(rec, results) ==
    [rec EXCEPT !.status = "completed", !.results = JsonDumps(results), !.progress = 1]

\* the fields fail writes: as complete, with status Failed
FailFields(rec, error) ==
    [rec EXCEPT !.status = "failed", !.results = JsonDumps(error), !.progress = 1]

\* the fields _synthesize_results writes to the parent
SynthesisFields(rec, final_output) ==
    [rec EXCEPT !.status = "completed", !.final_report = final_output]

\* get_task_status(task_id)['results']
StatusResults(rec) == IF rec.results = Null THEN Null ELSE JsonLoads(rec.results)

VARIABLES
    tasks,          \* the tasks table: id -> row
    queue,          \* queue name -> sorted set of {"task_id": id} by priority
    findings,       \* the research_findings table: <<task id, agent id>>
    agent_status,   \* the cached status set_agent_status writes
    default_queue,  \* the queue push_task uses when none is named
    next_uuid,      \* how many uuid4() ids submit_task has drawn
    next_entry,     \* how many uuid4() ids trigger_final_synthesis has drawn
    pc,             \* the await each caller is suspended at
    loc,            \* the caller's local variables
    ret,            \* what the caller's last claim_task or ensure_capacity returned
    processed,      \* the synthesis tasks whose process_task has ended
    history,        \* whether enq and handed are kept
    enq,            \* per queue, the entries pushed, in order
    handed,         \* per queue, the entries popped, in order
    pops,           \* how many claim_task calls found an entry
    triggered,      \* the synthesis tasks created and enqueued, and by whom
    early,          \* the tasks completed before their parent listed them
    active_agents,  \* AgentFactory.active_agents: the registered ids, in insertion order
    agent_counter,  \* AgentFactory.agent_counter
    agent_states,   \* the status column of the table agent_states, per agent id
    agent_messages, \* the rows of the table agent_messages, message_lists, per message id
    message_lists   \* the Redis lists messages:..., per key

vars == <<tasks, queue, findings, agent_status, default_queue, agent_states,
          agent_messages, message_lists, active_agents,
          agent_counter, next_uuid,
          next_entry, pc, loc, ret, processed, history, enq, handed, pops,
          triggered, early>>

\* a log with one more entry, where logs are kept
Log(l, e) == IF history THEN Append(l, e) ELSE l

NoLoc == [task_id |-> NoId, parent |-> NoId, ids |-> <<>>, subtask_ids |-> <<>>,
          i |-> 0, priority |-> 0, queue_name |-> "task_queue",
          after |-> "idle", call |-> "none", results |-> <<>>]


Held(a, t) ==
    /\ t \in DOMAIN tasks
    /\ tasks[t].status = "in_progress"
    /\ \E k \in 1..Len(tasks[t].assigned_agents) : tasks[t].assigned_agents[k] = a

\* t is a subtask its parent lists: decompose_task has linked it and has
\* written the parent's subtasks
Listed(t) ==
    /\ tasks[t].parent_task_id # NoId
    /\ HasTask(tasks, tasks[t].parent_task_id)
    /\ \E k \in 1..Len(tasks[tasks[t].parent_task_id].subtasks) :
          tasks[tasks[t].parent_task_id].subtasks[k] = t

Return(p, r) ==
    /\ pc' = [pc EXCEPT ![p] = "idle"]
    /\ loc' = [loc EXCEPT ![p] = NoLoc]
    /\ ret' = [ret EXCEPT ![p] = r]

Goto(p, label, l) ==
    /\ pc' = [pc EXCEPT ![p] = label]
    /\ loc' = [loc EXCEPT ![p] = l]
    /\ UNCHANGED ret

\* ------------------------------------------------------------ submit_task
\* await create_task(task_data), with the id and the queue name chosen
SubmitStart(p, human_request, priority, task_type) ==
    /\ p \in Clients
    /\ pc[p] = "idle"
    /\ next_uuid <= MaxUuid
    /\ Cardinality({t \in DOMAIN tasks : tasks[t].task_type = task_type}) < MaxPrimary
    /\ next_uuid' = next_uuid + 1
    /\ tasks' = InsertTask(tasks, Uuid(next_uuid),
                           NewTask(human_request, priority, task_type))
    /\ Goto(p, "submit_push",
            [NoLoc EXCEPT !.task_id = Uuid(next_uuid), !.priority = priority,
                          !.queue_name = SubmitQueue(task_type)])
    /\ UNCHANGED <<queue, findings, agent_status, default_queue, agent_states, agent_messages, message_lists, active_agents,
                   agent_counter, next_entry,
                   enq, handed,
                   processed, history, pops, triggered, early>>

\* await push_task({"task_id": task_id}, priority, queue_name)
SubmitPush(p) ==
    /\ pc[p] = "submit_push"
    /\ queue' = PushTask(queue, loc[p].queue_name, loc[p].task_id, loc[p].priority)
    /\ enq' = [enq EXCEPT ![loc[p].queue_name] =
                  Log(@, [task_id |-> loc[p].task_id, score |-> loc[p].priority])]
    /\ Goto(p, "submit_push_default", loc[p])
    /\ UNCHANGED <<tasks, findings, agent_status, default_queue, agent_states, agent_messages, message_lists, active_agents,
                   agent_counter, next_uuid,
                   next_entry, handed,
                   processed, history, pops, triggered, early>>

\* await push_task({'task_id': task_id}, priority); return task_id
SubmitPushDefault(p) ==
    /\ pc[p] = "submit_push_default"
    /\ queue' = PushTask(queue, default_queue, loc[p].task_id, loc[p].priority)
    /\ enq' = [enq EXCEPT ![default_queue] =
                  Log(@, [task_id |-> loc[p].task_id, score |-> loc[p].priority])]
    /\ IF loc[p].after = "idle"
       THEN Return(p, loc[p].task_id)
       ELSE Goto(p, loc[p].after, loc[p])
    /\ UNCHANGED <<tasks, findings, agent_status, default_queue, agent_states, agent_messages, message_lists, active_agents,
                   agent_counter, next_uuid,
                   next_entry, handed,
                   processed, history, pops, triggered, early>>

\* ------------------------------------------------------------- claim_task
\* task_data = await pop_task(queue_name); if not task_data: return None
ClaimStart(a, agent_type, budget) ==
    /\ a \in Agents
    /\ pc[a] = "idle"
    /\ LET q == ClaimQueue(agent_type) IN
       IF DOMAIN queue[q] = {}
       THEN /\ Return(a, NoId)
            /\ UNCHANGED <<queue, handed, pops>>
       ELSE \E m \in ZMaxMembers(queue[q]) :
               /\ pops < budget
               /\ pops' = pops + 1
               /\ queue' = [queue EXCEPT ![q] = ZRem(queue[q], m)]
               /\ handed' = [handed EXCEPT ![q] =
                                Log(@, [task_id |-> m, score |-> queue[q][m],
                                           at |-> Len(enq[q])])]
               /\ Goto(a, "claim_get", [NoLoc EXCEPT !.task_id = m, !.queue_name = q])
    /\ UNCHANGED <<tasks, findings, agent_status, default_queue, agent_states, agent_messages, message_lists, active_agents,
                   agent_counter, next_uuid,
                   next_entry, enq,
                   processed, history, triggered, early>>

\* task = await get_task(task_data["task_id"]); if task: ... return None
ClaimGet(a) ==
    /\ pc[a] = "claim_get"
    /\ IF HasTask(tasks, loc[a].task_id)
       THEN Goto(a, "claim_update", loc[a])
       ELSE Return(a, NoId)
    /\ UNCHANGED <<tasks, queue, findings, agent_status, default_queue, agent_states, agent_messages, message_lists, active_agents,
                   agent_counter,
                   next_uuid, next_entry, enq, handed,
                   processed, history, pops, triggered, early>>

\* await update_task(task['id'], {'status': 'in_progress', 'assigned_agents': [agent_id]})
ClaimUpdate(a) ==
    /\ pc[a] = "claim_update"
    /\ tasks' = IF HasTask(tasks, loc[a].task_id)
                THEN [tasks EXCEPT ![loc[a].task_id] = ClaimFields(@, a)]
                ELSE tasks
    /\ Goto(a, "claim_status", loc[a])
    /\ UNCHANGED <<queue, findings, agent_status, default_queue, agent_states, agent_messages, message_lists, active_agents,
                   agent_counter, next_uuid,
                   next_entry, enq, handed,
                   processed, history, pops, triggered, early>>

\* await set_agent_status(agent_id, "working"); return
ClaimStatus(a) ==
    /\ pc[a] = "claim_status"
    /\ agent_status' = [agent_status EXCEPT ![a] = "working"]
    /\ Return(a, ClaimReturn(loc[a].task_id))
    /\ UNCHANGED <<tasks, queue, findings, default_queue, agent_states, agent_messages, message_lists, active_agents,
                   agent_counter, next_uuid, next_entry,
                   enq, handed,
                   processed, history, pops, triggered, early>>

Claim(budget) ==
    \/ \E a \in Agents, agent_type \in AgentTypes : ClaimStart(a, agent_type, budget)
    \/ \E a \in Agents : ClaimGet(a)
    \/ \E a \in Agents : ClaimUpdate(a)
    \/ \E a \in Agents : ClaimStatus(a)

\* ---------------------------------------------------------- complete_task
\* await update_task(task_id, {'status': 'completed', 'results': ..., 'progress': 1.0})
CompleteStart(a, t, results) ==
    /\ a \in Agents
    /\ pc[a] = "idle"
    /\ Held(a, t)
    /\ tasks' = [tasks EXCEPT ![t] = CompleteFields(@, results)]
    /\ early' = IF Listed(t) THEN early ELSE early \cup {t}
    /\ Goto(a, "comp_findings",
            [NoLoc EXCEPT !.task_id = t, !.call = "complete", !.results = results])
    /\ UNCHANGED <<queue, findings, agent_status, default_queue, agent_states, agent_messages, message_lists, active_agents,
                   agent_counter, next_uuid,
                   next_entry, enq, handed,
                   processed, history, pops, triggered>>

\* fail(taskId, agentId, error): as complete_task, with status Failed
FailStart(a, t, error) ==
    /\ a \in Agents
    /\ pc[a] = "idle"
    /\ Held(a, t)
    /\ tasks' = [tasks EXCEPT ![t] = FailFields(@, error)]
    /\ early' = IF Listed(t) THEN early ELSE early \cup {t}
    /\ Goto(a, "comp_findings",
            [NoLoc EXCEPT !.task_id = t, !.call = "fail", !.results = error])
    /\ UNCHANGED <<queue, findings, agent_status, default_queue, agent_states, agent_messages, message_lists, active_agents,
                   agent_counter, next_uuid,
                   next_entry, enq, handed,
                   processed, history, pops, triggered>>

\* await save_findings(task_id, agent_id, results)
CompFindings(a) ==
    /\ pc[a] = "comp_findings"
    /\ findings' = findings \cup {<<loc[a].task_id, a>>}
    /\ Goto(a, "comp_status", loc[a])
    /\ UNCHANGED <<tasks, queue, agent_status, default_queue, agent_states, agent_messages, message_lists, active_agents,
                   agent_counter, next_uuid,
                   next_entry, enq, handed,
                   processed, history, pops, triggered, early>>

\* await set_agent_status(agent_id, 'idle')
CompStatus(a) ==
    /\ pc[a] = "comp_status"
    /\ agent_status' = [agent_status EXCEPT ![a] = "idle"]
    /\ Goto(a, "comp_get", loc[a])
    /\ UNCHANGED <<tasks, queue, findings, default_queue, agent_states, agent_messages, message_lists, active_agents,
                   agent_counter, next_uuid, next_entry,
                   enq, handed,
                   processed, history, pops, triggered, early>>

\* task = await get_task(task_id); if task and task.get("parent_task_id"): ...
CompGet(a) ==
    /\ pc[a] = "comp_get"
    /\ IF HasTask(tasks, loc[a].task_id) /\ tasks[loc[a].task_id].parent_task_id # NoId
       THEN Goto(a, "chk_parent",
                 [loc[a] EXCEPT !.parent = tasks[loc[a].task_id].parent_task_id])
       ELSE Return(a, ret[a])
    /\ UNCHANGED <<tasks, queue, findings, agent_status, default_queue, agent_states, agent_messages, message_lists, active_agents,
                   agent_counter,
                   next_uuid, next_entry, enq, handed,
                   processed, history, pops, triggered, early>>

\* check_all_subtasks_complete: parent_task = await get_task(parent_task_id)
ChkParent(a) ==
    /\ pc[a] = "chk_parent"
    /\ IF ~HasTask(tasks, loc[a].parent) \/ tasks[loc[a].parent].subtasks = <<>>
       THEN Return(a, ret[a])
       ELSE Goto(a, "chk_sub",
                 [loc[a] EXCEPT !.subtask_ids = tasks[loc[a].parent].subtasks, !.i = 1])
    /\ UNCHANGED <<tasks, queue, findings, agent_status, default_queue, agent_states, agent_messages, message_lists, active_agents,
                   agent_counter,
                   next_uuid, next_entry, enq, handed,
                   processed, history, pops, triggered, early>>

\* the status check_all_subtasks_complete asks of every subtask
SubtaskDone(rec) == rec.status = "completed"

\* subtask = await get_task(subtask_id), once per listed subtask; after the
\* last one trigger_final_synthesis starts and draws synthesis_task_id
ChkSub(a) ==
    /\ pc[a] = "chk_sub"
    /\ LET sub == loc[a].subtask_ids[loc[a].i] IN
       IF ~HasTask(tasks, sub) \/ ~SubtaskDone(tasks[sub])
       THEN /\ Return(a, ret[a])
            /\ UNCHANGED next_entry
       ELSE IF loc[a].i < Len(loc[a].subtask_ids)
       THEN /\ Goto(a, "chk_sub", [loc[a] EXCEPT !.i = @ + 1])
            /\ UNCHANGED next_entry
       ELSE /\ Goto(a, "syn_create", [loc[a] EXCEPT !.ids = <<EntryUuid(next_entry)>>])
            /\ next_entry' = next_entry + 1
    /\ UNCHANGED <<tasks, queue, findings, agent_status, default_queue, agent_states, agent_messages, message_lists, active_agents,
                   agent_counter,
                   next_uuid, enq, handed,
                   processed, history, pops, triggered, early>>

\* trigger_final_synthesis: await create_task(synthesis_task).  The row's id is
\* parent_task_id + "_synthesis"; for an id already in the table the call
\* either fails on the key (insert) or replaces the row (upsert).
SynCreate(a) ==
    /\ pc[a] = "syn_create"
    /\ LET id == SynthesisId(loc[a].parent)
           rec == NewTask(SynthesisRequest(loc[a].parent), 10, "synthesis")
       IN \/ /\ tasks' = InsertTask(tasks, id, rec)
             /\ Goto(a, "syn_push", loc[a])
          \/ /\ HasTask(tasks, id)
             /\ UNCHANGED tasks
             /\ Return(a, ret[a])
    /\ UNCHANGED <<queue, findings, agent_status, default_queue, agent_states, agent_messages, message_lists, active_agents,
                   agent_counter, next_uuid,
                   next_entry, enq, handed,
                   processed, history, pops, triggered, early>>

\* await push_task({"task_id": synthesis_task_id}, priority=10, queue_name="planner_queue")
SynPush(a) ==
    /\ pc[a] = "syn_push"
    /\ queue' = PushTask(queue, "planner_queue", loc[a].ids[1], 10)
    /\ enq' = [enq EXCEPT !["planner_queue"] =
                  Log(@, [task_id |-> loc[a].ids[1], score |-> 10])]
    /\ triggered' = triggered \cup {[parent |-> loc[a].parent, sub |-> loc[a].task_id,
                                     entry |-> loc[a].ids[1]]}
    /\ Return(a, ret[a])
    /\ UNCHANGED <<tasks, findings, agent_status, default_queue, agent_states, agent_messages, message_lists, active_agents,
                   agent_counter, next_uuid,
                   next_entry, handed,
                   processed, history, pops, early>>

\* --------------------------------------------------------- decompose_task
\* the first submit_task of the loop, up to its create_task
DecomposeStart(a, t, n) ==
    /\ a \in Agents
    /\ pc[a] = "idle"
    /\ Held(a, t)
    /\ tasks[t].parent_task_id = NoId
    /\ tasks[t].subtasks = <<>>
    /\ ~StartsWithSynthesize(tasks[t].human_request)
    /\ next_uuid + n - 1 <= MaxUuid
    /\ next_uuid' = next_uuid + n
    /\ tasks' = InsertTask(tasks, Uuid(next_uuid), NewTask(<<"d">>, 5, "research_subtask"))
    /\ Goto(a, "submit_push",
            [NoLoc EXCEPT !.task_id = Uuid(next_uuid), !.priority = 5,
                          !.queue_name = SubmitQueue("research_subtask"),
                          !.after = "dec_link", !.parent = t, !.i = 1,
                          !.ids = [k \in 1..n |-> Uuid(next_uuid + k - 1)]])
    /\ UNCHANGED <<queue, findings, agent_status, default_queue, agent_states, agent_messages, message_lists, active_agents,
                   agent_counter, next_entry,
                   enq, handed,
                   processed, history, pops, triggered, early>>

\* the loop of decompose_task without the update that links the subtask
DecLinkSkip(a) ==
    /\ pc[a] = "dec_link"
    /\ UNCHANGED tasks
    /\ IF loc[a].i < Len(loc[a].ids)
       THEN Goto(a, "submit_create",
                 [loc[a] EXCEPT !.subtask_ids = Append(@, loc[a].task_id),
                                !.i = @ + 1, !.task_id = loc[a].ids[loc[a].i + 1]])
       ELSE Goto(a, "dec_parent",
                 [loc[a] EXCEPT !.subtask_ids = Append(@, loc[a].task_id)])
    /\ UNCHANGED <<queue, findings, agent_status, default_queue, agent_states, agent_messages, message_lists, active_agents,
                   agent_counter, next_uuid,
                   next_entry, enq, handed,
                   processed, history, pops, triggered, early>>

\* await update_task(subtask_id, {'parent_task_id': task_id})
DecLink(a) ==
    /\ pc[a] = "dec_link"
    /\ tasks' = IF HasTask(tasks, loc[a].task_id)
                THEN [tasks EXCEPT ![loc[a].task_id].parent_task_id = loc[a].parent]
                ELSE tasks
    /\ IF loc[a].i < Len(loc[a].ids)
       THEN Goto(a, "submit_create",
                 [loc[a] EXCEPT !.subtask_ids = Append(@, loc[a].task_id),
                                !.i = @ + 1, !.task_id = loc[a].ids[loc[a].i + 1]])
       ELSE Goto(a, "dec_parent",
                 [loc[a] EXCEPT !.subtask_ids = Append(@, loc[a].task_id)])
    /\ UNCHANGED <<queue, findings, agent_status, default_queue, agent_states, agent_messages, message_lists, active_agents,
                   agent_counter, next_uuid,
                   next_entry, enq, handed,
                   processed, history, pops, triggered, early>>

\* the next submit_task of the loop: await create_task(task_data)
SubmitCreate(a) ==
    /\ pc[a] = "submit_create"
    /\ tasks' = InsertTask(tasks, loc[a].task_id, NewTask(<<"d">>, 5, "research_subtask"))
    /\ Goto(a, "submit_push", loc[a])
    /\ UNCHANGED <<queue, findings, agent_status, default_queue, agent_states, agent_messages, message_lists, active_agents,
                   agent_counter, next_uuid,
                   next_entry, enq, handed,
                   processed, history, pops, triggered, early>>

\* await update_task(task_id, {'subtasks': subtask_ids}); return True
DecParent(a) ==
    /\ pc[a] = "dec_parent"
    /\ tasks' = IF HasTask(tasks, loc[a].parent)
                THEN [tasks EXCEPT ![loc[a].parent].subtasks = loc[a].subtask_ids]
                ELSE tasks
    /\ Return(a, ret[a])
    /\ UNCHANGED <<queue, findings, agent_status, default_queue, agent_states, agent_messages, message_lists, active_agents,
                   agent_counter, next_uuid,
                   next_entry, enq, handed,
                   processed, history, pops, triggered, early>>

\* ------------------------------------------ BrainHive._synthesize_results
\* process_task of a task whose request starts with SYNTHESIZE:
\* parent_task_id = human_request.split(":")[1]; parent_task = get_task(...);
\* parent_task["subtasks"] raises when there is no such row; otherwise the
\* findings are read, the report is generated and written to the parent.
SynthesizeResults(a, s) ==
    /\ a \in Agents
    /\ pc[a] = "idle"
    /\ HasTask(tasks, s)
    /\ StartsWithSynthesize(tasks[s].human_request)
    /\ LET parent_task_id == ParseSynthesize(tasks[s].human_request) IN
       IF HasTask(tasks, parent_task_id)
       THEN tasks' = [tasks EXCEPT ![parent_task_id] = SynthesisFields(@, <<"report">>)]
       ELSE UNCHANGED tasks
    /\ processed' = processed \cup {s}
    /\ UNCHANGED <<pc, loc, ret>>
    /\ UNCHANGED <<queue, findings, agent_status, default_queue, agent_states, agent_messages, message_lists, active_agents,
                   agent_counter, next_uuid,
                   next_entry, enq, handed, history, pops, triggered, early>>

\* ------------------------------------------------------------ the program
Init ==
    /\ tasks = EmptyZ
    /\ queue = [q \in QueueNames |-> EmptyZ]
    /\ findings = {}
    /\ agent_status = [a \in Agents |-> "idle"]
    /\ default_queue \in QueueNames
    /\ next_uuid = 1
    /\ next_entry = 1
    /\ pc = [p \in Procs |-> "idle"]
    /\ loc = [p \in Procs |-> NoLoc]
    /\ ret = [p \in Procs |-> NoId]
    /\ enq = [q \in QueueNames |-> <<>>]
    /\ handed = [q \in QueueNames |-> <<>>]
    /\ processed = {}
    /\ history = FALSE
    /\ pops = 0
    /\ triggered = {}
    /\ early = {}
    /\ active_agents = <<>>
    /\ agent_counter = 0
    /\ agent_states = EmptyZ
    /\ agent_messages = EmptyZ
    /\ message_lists = EmptyZ

Next ==
    \/ \E p \in Clients, priority \in SubmitPriorities :
          SubmitStart(p, <<"r">>, priority, "human_request")
    \/ \E p \in Procs : SubmitPush(p)
    \/ \E p \in Procs : SubmitPushDefault(p)
    \/ \E a \in Agents, agent_type \in AgentTypes :
          ClaimStart(a, agent_type, MaxClaims)
    \/ \E a \in Agents : ClaimGet(a)
    \/ \E a \in Agents : ClaimUpdate(a)
    \/ \E a \in Agents : ClaimStatus(a)
    \/ \E a \in Agents, t \in DOMAIN tasks : CompleteStart(a, t, <<"ok">>)
    \/ \E a \in Agents, t \in DOMAIN tasks : FailStart(a, t, <<"error">>)
    \/ \E a \in Agents : CompFindings(a)
    \/ \E a \in Agents : CompStatus(a)
    \/ \E a \in Agents : CompGet(a)
    \/ \E a \in Agents : ChkParent(a)
    \/ \E a \in Agents : ChkSub(a)
    \/ \E a \in Agents : SynCreate(a)
    \/ \E a \in Agents : SynPush(a)
    \/ \E a \in Agents, t \in DOMAIN tasks, n \in 1..MaxSub : DecomposeStart(a, t, n)
    \/ \E a \in Agents : DecLink(a)
    \/ \E a \in Agents : SubmitCreate(a)
    \/ \E a \in Agents : DecParent(a)
    \/ \E a \in Agents, s \in DOMAIN tasks : SynthesizeResults(a, s)

Spec == Init /\ [][Next]_vars

\* ------------------------------------------- the claim protocol on its own
\* the store after submit_task has run to its end once per priority of prios
RECURSIVE Submitted(_, _)
Submitted(prios, dq) ==
    IF prios = <<>>
    THEN [tasks |-> EmptyZ,
          queue |-> [q \in QueueNames |-> EmptyZ],
          enq |-> [q \in QueueNames |-> <<>>]]
    ELSE LET n == Len(prios)
             s == Submitted(SubSeq(prios, 1, n - 1), dq)
             id == Uuid(n)
             q == SubmitQueue("human_request")
             e == [task_id |-> id, score |-> prios[n]]
         IN [tasks |-> InsertTask(s.tasks, id, NewTask(<<"r">>, prios[n], "human_request")),
             queue |-> PushTask(PushTask(s.queue, q, id, prios[n]), dq, id, prios[n]),
             enq |-> [x \in QueueNames |->
                        s.enq[x] \o (IF x = q THEN <<e>> ELSE <<>>)
                                 \o (IF x = dq THEN <<e>> ELSE <<>>)]]

PrioSeqs(k) == UNION {[1..n -> Priorities] : n \in 0..k}

InitClaim ==
    /\ default_queue \in QueueNames
    /\ \E prios \in PrioSeqs(MaxQueued) :
          /\ tasks = Submitted(prios, default_queue).tasks
          /\ queue = Submitted(prios, default_queue).queue
          /\ enq = Submitted(prios, default_queue).enq
          /\ next_uuid = Len(prios) + 1
    /\ findings = {}
    /\ agent_status = [a \in Agents |-> "idle"]
    /\ next_entry = 1
    /\ pc = [p \in Procs |-> "idle"]
    /\ loc = [p \in Procs |-> NoLoc]
    /\ ret = [p \in Procs |-> NoId]
    /\ handed = [q \in QueueNames |-> <<>>]
    /\ processed = {}
    /\ history = TRUE
    /\ pops = 0
    /\ triggered = {}
    /\ early = {}
    /\ active_agents = <<>>
    /\ agent_counter = 0
    /\ agent_states = EmptyZ
    /\ agent_messages = EmptyZ
    /\ message_lists = EmptyZ

\* every entry behind the queues can be claimed: a task has at most two
NextClaim == Claim(2 * MaxQueued)

SpecClaim == InitClaim /\ [][NextClaim]_vars

\* ------------------------------------------------ the sorted set on its own
\* RedisManager.add_task_to_queue(queue_name, task_data, priority)
AddTaskToQueue(q, m, priority) ==
    /\ Len(enq[q]) < MaxAdds
    /\ queue' = PushTask(queue, q, m, priority)
    /\ enq' = [enq EXCEPT ![q] = Log(@, [task_id |-> m, score |-> priority])]
    /\ UNCHANGED <<tasks, findings, agent_status, default_queue, agent_states, agent_messages, message_lists, active_agents,
                   agent_counter, next_uuid,
                   next_entry, pc, loc, ret, handed,
                   processed, history, pops, triggered, early>>

\* RedisManager.get_next_task(queue_name)
GetNextTask(q) ==
    /\ IF DOMAIN queue[q] = {}
       THEN UNCHANGED <<queue, handed>>
       ELSE \E m \in ZMaxMembers(queue[q]) :
               /\ queue' = [queue EXCEPT ![q] = ZRem(queue[q], m)]
               /\ handed' = [handed EXCEPT ![q] =
                                Log(@, [task_id |-> m, score |-> queue[q][m],
                                           at |-> Len(enq[q])])]
    /\ UNCHANGED <<tasks, findings, agent_status, default_queue, agent_states, agent_messages, message_lists, active_agents,
                   agent_counter, next_uuid,
                   next_entry, pc, loc, ret, enq,
                   processed, history, pops, triggered, early>>

QueueIds == {"research_queue"}

InitQueue ==
    /\ tasks = EmptyZ
    /\ queue = [q \in QueueNames |-> EmptyZ]
    /\ enq = [q \in QueueNames |-> <<>>]
    /\ handed = [q \in QueueNames |-> <<>>]
    /\ default_queue = "task_queue"
    /\ findings = {}
    /\ agent_status = [a \in Agents |-> "idle"]
    /\ next_uuid = 1
    /\ next_entry = 1
    /\ pc = [p \in Procs |-> "idle"]
    /\ loc = [p \in Procs |-> NoLoc]
    /\ ret = [p \in Procs |-> NoId]
    /\ processed = {}
    /\ history = TRUE
    /\ pops = 0
    /\ triggered = {}
    /\ early = {}
    /\ active_agents = <<>>
    /\ agent_counter = 0
    /\ agent_states = EmptyZ
    /\ agent_messages = EmptyZ
    /\ message_lists = EmptyZ

NextQueue ==
    \/ \E q \in QueueIds, n \in 1..MaxAdds, priority \in Priorities :
          AddTaskToQueue(q, Uuid(n), priority)
    \/ \E q \in QueueIds : GetNextTask(q)

SpecQueue == InitQueue /\ [][NextQueue]_vars

\* ------------------------------------------------- submit_task and claims
InitSubmit ==
    /\ tasks = EmptyZ
    /\ queue = [q \in QueueNames |-> EmptyZ]
    /\ enq = [q \in QueueNames |-> <<>>]
    /\ handed = [q \in QueueNames |-> <<>>]
    /\ default_queue \in QueueNames
    /\ findings = {}
    /\ agent_status = [a \in Agents |-> "idle"]
    /\ next_uuid = 1
    /\ next_entry = 1
    /\ pc = [p \in Procs |-> "idle"]
    /\ loc = [p \in Procs |-> NoLoc]
    /\ ret = [p \in Procs |-> NoId]
    /\ processed = {}
    /\ history = TRUE
    /\ pops = 0
    /\ triggered = {}
    /\ early = {}
    /\ active_agents = <<>>
    /\ agent_counter = 0
    /\ agent_states = EmptyZ
    /\ agent_messages = EmptyZ
    /\ message_lists = EmptyZ

NextSubmit ==
    \/ \E p \in Clients, priority \in Priorities :
          SubmitStart(p, <<"r">>, priority, "human_request")
    \/ \E p \in Clients : SubmitPush(p)
    \/ \E p \in Clients : SubmitPushDefault(p)
    \/ Claim(MaxClaims)

SpecSubmit == InitSubmit /\ [][NextSubmit]_vars

\* ------------------------------------------- submit with failing store calls
\* an exception that leaves a coroutine: what its caller gets instead of a value
Raised(e) == <<"raised", e>>

IsRaised(r) == Len(r) = 2 /\ r[1] = "raised"

\* the False that SharedState.create_task returns from its except clause
PyFalse == <<"False">>

PyTrue == <<"True">>

\* the task_type of a row written by SharedState.create_task, which has none
NoType == "null"

\* the sorted set SharedState keeps its tasks in: f"queue:tasks"
SharedQueue == "tasks"

FaultQueues == QueueNames \cup {SharedQueue}

\* await create_task(task_data) swallows the error of the insert and
\* submit_task goes on to its push
SubmitCreateSwallowed(p, human_request, priority, task_type) ==
    /\ p \in Clients
    /\ pc[p] = "idle"
    /\ next_uuid <= MaxUuid
    /\ next_uuid' = next_uuid + 1
    /\ Goto(p, "submit_push",
            [NoLoc EXCEPT !.task_id = Uuid(next_uuid), !.priority = priority,
                          !.queue_name = SubmitQueue(task_type)])
    /\ UNCHANGED <<tasks, queue, findings, agent_status, default_queue, agent_states, agent_messages, message_lists, active_agents,
                   agent_counter, next_entry,
                   enq, handed,
                   processed, history, pops, triggered, early>>

\* await create_task(task_data) where the insert raises: nothing in
\* submit_task catches, the exception leaves submit_task
SubmitCreateFails(p, human_request, priority, task_type) ==
    /\ p \in Clients
    /\ pc[p] = "idle"
    /\ next_uuid <= MaxUuid
    /\ next_uuid' = next_uuid + 1
    /\ Return(p, Raised("create_task"))
    /\ UNCHANGED <<tasks, queue, findings, agent_status, default_queue, agent_states, agent_messages, message_lists, active_agents,
                   agent_counter, next_entry,
                   enq, handed,
                   processed, history, pops, triggered, early>>

\* await push_task(..., queue_name) where the ZADD raises: nothing in
\* submit_task catches
SubmitPushFails(p) ==
    /\ pc[p] = "submit_push"
    /\ Return(p, Raised("push_task"))
    /\ UNCHANGED <<tasks, queue, findings, agent_status, default_queue, agent_states, agent_messages, message_lists, active_agents,
                   agent_counter, next_uuid,
                   next_entry, enq, handed,
                   processed, history, pops, triggered, early>>

\* await push_task(..., priority) where the ZADD raises
SubmitPushDefaultFails(p) ==
    /\ pc[p] = "submit_push_default"
    /\ loc[p].after = "idle"
    /\ Return(p, Raised("push_task"))
    /\ UNCHANGED <<tasks, queue, findings, agent_status, default_queue, agent_states, agent_messages, message_lists, active_agents,
                   agent_counter, next_uuid,
                   next_entry, enq, handed,
                   processed, history, pops, triggered, early>>

\* SharedState.create_task(task): the Task was built with a fresh uuid4 id;
\* self.supabase.table("tasks").upsert(task_data).execute() runs, and where it
\* raises the except clause returns False
SharedCreateTask(p, human_request, priority, upsert_ok) ==
    /\ p \in Clients
    /\ pc[p] = "idle"
    /\ next_uuid <= MaxUuid
    /\ next_uuid' = next_uuid + 1
    /\ IF upsert_ok
       THEN /\ tasks' = InsertTask(tasks, Uuid(next_uuid),
                                   NewTask(human_request, priority, NoType))
            /\ Goto(p, "shared_zadd",
                    [NoLoc EXCEPT !.task_id = Uuid(next_uuid), !.priority = priority,
                                  !.queue_name = SharedQueue])
       ELSE /\ UNCHANGED tasks
            /\ Return(p, PyFalse)
    /\ UNCHANGED <<queue, findings, agent_status, default_queue, agent_states, agent_messages, message_lists, active_agents,
                   agent_counter, next_entry,
                   enq, handed,
                   processed, history, pops, triggered, early>>

\* await self.redis.zadd("queue:tasks", {json: priority}); return True, or
\* False from the except clause where the ZADD raises
SharedZadd(p, zadd_ok) ==
    /\ pc[p] = "shared_zadd"
    /\ IF zadd_ok
       THEN /\ queue' = PushTask(queue, SharedQueue, loc[p].task_id, loc[p].priority)
            /\ enq' = [enq EXCEPT ![SharedQueue] =
                          Log(@, [task_id |-> loc[p].task_id, score |-> loc[p].priority])]
            /\ Return(p, PyTrue)
       ELSE /\ UNCHANGED <<queue, enq>>
            /\ Return(p, PyFalse)
    /\ UNCHANGED <<tasks, findings, agent_status, default_queue, agent_states, agent_messages, message_lists, active_agents,
                   agent_counter, next_uuid,
                   next_entry, handed,
                   processed, history, pops, triggered, early>>

InitFault ==
    /\ tasks = EmptyZ
    /\ queue = [q \in FaultQueues |-> EmptyZ]
    /\ enq = [q \in FaultQueues |-> <<>>]
    /\ handed = [q \in FaultQueues |-> <<>>]
    /\ default_queue \in QueueNames
    /\ findings = {}
    /\ agent_status = [a \in Agents |-> "idle"]
    /\ next_uuid = 1
    /\ next_entry = 1
    /\ pc = [p \in Procs |-> "idle"]
    /\ loc = [p \in Procs |-> NoLoc]
    /\ ret = [p \in Procs |-> NoId]
    /\ processed = {}
    /\ history = TRUE
    /\ pops = 0
    /\ triggered = {}
    /\ early = {}
    /\ active_agents = <<>>
    /\ agent_counter = 0
    /\ agent_states = EmptyZ
    /\ agent_messages = EmptyZ
    /\ message_lists = EmptyZ

\* a client makes at most MaxCalls submissions, failed ones included
NextFault ==
    \/ \E p \in Clients, priority \in SubmitPriorities :
          next_uuid <= MaxCalls /\ SubmitStart(p, <<"r">>, priority, "human_request")
    \/ \E p \in Clients, priority \in SubmitPriorities :
          next_uuid <= MaxCalls
             /\ SubmitCreateFails(p, <<"r">>, priority, "human_request")
    \/ \E p \in Clients : SubmitPush(p)
    \/ \E p \in Clients : SubmitPushFails(p)
    \/ \E p \in Clients : SubmitPushDefault(p)
    \/ \E p \in Clients : SubmitPushDefaultFails(p)
    \/ \E p \in Clients, priority \in SubmitPriorities, upsert_ok \in BOOLEAN :
          next_uuid <= MaxCalls /\ SharedCreateTask(p, <<"r">>, priority, upsert_ok)
    \/ \E p \in Clients, zadd_ok \in BOOLEAN : SharedZadd(p, zadd_ok)
    \/ Claim(MaxClaims)

SpecFault == InitFault /\ [][NextFault]_vars

\* ------------------------------------------------- BaseAgent: the runtime
\* Read with the names the class defines: get_tasks_for_agent is
\* SharedState.claim_next_task, _broadcast_to_holon is broadcast_to_holon,
\* task.result is the field results, and _execute_task is the method of
\* BaseAgent.  The calls of the supabase client do not suspend; a coroutine is
\* cut at the redis calls and at the sleeps.

\* what WorkerAgent.process_task returns: the findings, or the _error_response
\* of its except clause when the call of the llm client raised
WorkerResult(llm_ok) == IF llm_ok THEN <<"findings">> ELSE <<"Task failed">>

\* the agent instances that are started
Workers == {"a1"}

\* the outcomes of one process_task call
Outcomes == {"ok", "soft", "raise"}

\* SharedState.update_task(task): the columns written from the Task object
UpdateTaskFields(rec, task) ==
    [rec EXCEPT !.status = task.status,
                !.progress = task.progress,
                !.results = IF task.results = Null THEN Null ELSE JsonDumps(task.results),
                !.assigned_agents = task.assigned_agents]

\* the fields of an agent instance and the positions of the coroutines other
\* than its loop: the task body _execute_task and the stop() call
NoAgent == [status |-> "idle", running |-> FALSE, current_task |-> NoId,
            claimed |-> NoId, task |-> Null, body |-> "none", body_task |-> Null,
            outcome |-> "none", idle_write |-> FALSE, stop |-> "none"]

\* the positions of start() that are inside the while loop of _main_loop
InLoop == {"head", "messages", "check", "claim_resume", "assign_write", "sleep", "backoff"}

RuntimeFrame ==
    UNCHANGED <<findings, default_queue, agent_states, agent_messages, message_lists, next_uuid, next_entry, ret, processed,
                history, enq, handed, pops, triggered, early, active_agents,
                agent_counter>>

Loop(a, label, l) ==
    /\ pc' = [pc EXCEPT ![a] = label]
    /\ loc' = [loc EXCEPT ![a] = l]

\* start(): self.running = True, then the first test of the loop
Start(a) ==
    /\ pc[a] = "new"
    /\ Loop(a, "head", [loc[a] EXCEPT !.running = TRUE])
    /\ UNCHANGED <<tasks, queue, agent_status>>
    /\ RuntimeFrame

\* while self.running: the loop body starts, or the loop ends and the finally
\* clause of start() runs: self.running = False, _cleanup sets OFFLINE
LoopHead(a) ==
    /\ pc[a] = "head"
    /\ IF loc[a].running
       THEN Loop(a, "messages", loc[a])
       ELSE Loop(a, "cleanup_write", [loc[a] EXCEPT !.status = "offline"])
    /\ UNCHANGED <<tasks, queue, agent_status>>
    /\ RuntimeFrame

\* the hset of _cleanup's update_agent_status; start() returns
CleanupWrite(a) ==
    /\ pc[a] = "cleanup_write"
    /\ agent_status' = [agent_status EXCEPT ![a] = "offline"]
    /\ Loop(a, "ended", loc[a])
    /\ UNCHANGED <<tasks, queue>>
    /\ RuntimeFrame

\* await self._process_messages(): every error of a message is caught there
ProcessMessages(a) ==
    /\ pc[a] = "messages"
    /\ Loop(a, "check", loc[a])
    /\ UNCHANGED <<tasks, queue, agent_status>>
    /\ RuntimeFrame

\* an exception reaches the try of the loop with no handler for it: it leaves
\* _main_loop, start() logs it and sets ERROR, its finally clause cleans up
IterationFailsEnds(a) ==
    /\ pc[a] \in {"messages", "check"}
    /\ Loop(a, "cleanup_write",
            [loc[a] EXCEPT !.running = FALSE, !.status = "offline", !.claimed = NoId])
    /\ UNCHANGED <<tasks, queue, agent_status>>
    /\ RuntimeFrame

\* an exception raised in the try of the loop, by _process_messages or by
\* _check_for_tasks before the pop: except Exception logs it and awaits
\* asyncio.sleep(5).  claim_next_task, update_task and update_agent_status
\* catch their own errors, so none is raised after the pop.
IterationFails(a) ==
    /\ pc[a] \in {"messages", "check"}
    /\ Loop(a, "backoff", [loc[a] EXCEPT !.claimed = NoId])
    /\ UNCHANGED <<tasks, queue, agent_status>>
    /\ RuntimeFrame

\* _check_for_tasks called whatever the status of the agent
CheckForTasksAlways(a, zpop_ok) ==
    /\ pc[a] = "check"
    /\ IF ~zpop_ok \/ DOMAIN queue[SharedQueue] = {}
       THEN /\ Loop(a, "sleep", loc[a])
            /\ UNCHANGED queue
       ELSE \E m \in ZMaxMembers(queue[SharedQueue]) :
               /\ queue' = [queue EXCEPT ![SharedQueue] = ZRem(queue[SharedQueue], m)]
               /\ Loop(a, "claim_resume", [loc[a] EXCEPT !.claimed = m])
    /\ UNCHANGED <<tasks, agent_status>>
    /\ RuntimeFrame

\* if self.status == AgentStatus.IDLE: _check_for_tasks, whose first await is
\* the zpopmax of claim_next_task; the pop may fail, which is caught there
CheckForTasks(a, zpop_ok) ==
    /\ pc[a] = "check"
    /\ IF loc[a].status # "idle" \/ ~zpop_ok \/ DOMAIN queue[SharedQueue] = {}
       THEN /\ Loop(a, "sleep", loc[a])
            /\ UNCHANGED queue
       ELSE \E m \in ZMaxMembers(queue[SharedQueue]) :
               /\ queue' = [queue EXCEPT ![SharedQueue] = ZRem(queue[SharedQueue], m)]
               /\ Loop(a, "claim_resume", [loc[a] EXCEPT !.claimed = m])
    /\ UNCHANGED <<tasks, agent_status>>
    /\ RuntimeFrame

\* the Task object claim_next_task returns: the row with the agent appended
\* and status IN_PROGRESS
ClaimedTask(rec, id, agent_id) ==
    [id |-> id, status |-> "in_progress", progress |-> rec.progress,
     results |-> rec.results, assigned_agents |-> Append(rec.assigned_agents, agent_id)]

\* the rest of claim_next_task and assign_task up to the hset of
\* _update_status(WORKING): get_task (which returns None where its select
\* raises), the test of PENDING, update_task (an error of which is caught
\* and ignored), the test of self.status, self.current_task = task,
\* self.status = WORKING
ClaimResume(a, get_ok, db_ok) ==
    /\ pc[a] = "claim_resume"
    /\ LET id == loc[a].claimed IN
       IF get_ok /\ HasTask(tasks, id) /\ tasks[id].status = "pending"
       THEN LET task == ClaimedTask(tasks[id], id, a) IN
            /\ tasks' = IF db_ok
                        THEN [tasks EXCEPT ![id] = UpdateTaskFields(@, task)]
                        ELSE tasks
            /\ IF loc[a].status # "idle"
               THEN Loop(a, "sleep", [loc[a] EXCEPT !.claimed = NoId])
               ELSE Loop(a, "assign_write",
                         [loc[a] EXCEPT !.claimed = NoId, !.current_task = id,
                                        !.task = task, !.status = "working"])
       ELSE /\ UNCHANGED tasks
            /\ Loop(a, "sleep", [loc[a] EXCEPT !.claimed = NoId])
    /\ UNCHANGED <<queue, agent_status>>
    /\ RuntimeFrame

\* the hset of _update_status(WORKING) has ended:
\* asyncio.create_task(self._execute_task(task)); the loop goes to its sleep
AssignWrite(a) ==
    /\ pc[a] = "assign_write"
    /\ agent_status' = [agent_status EXCEPT ![a] = "working"]
    /\ Loop(a, "sleep", [loc[a] EXCEPT !.body = "process", !.body_task = loc[a].task,
                                       !.task = Null])
    /\ UNCHANGED <<tasks, queue>>
    /\ RuntimeFrame

\* await asyncio.sleep(1), or the asyncio.sleep(5) of the except clause
Sleep(a) ==
    /\ pc[a] \in {"sleep", "backoff"}
    /\ Loop(a, "head", loc[a])
    /\ UNCHANGED <<tasks, queue, agent_status>>
    /\ RuntimeFrame

\* _execute_task: process_task has ended.  A result, also the error response
\* of the worker, is stored in the Task with COMPLETED and progress 1.0 and
\* _complete_task runs; an exception sets FAILED and _fail_task runs.  Both
\* call update_task, whose error is caught and ignored, and then broadcast.
ExecuteTask(a, outcome, db_ok) ==
    /\ loc[a].body = "process"
    /\ LET task == IF outcome = "raise"
                   THEN [loc[a].body_task EXCEPT !.status = "failed"]
                   ELSE [loc[a].body_task EXCEPT !.status = "completed", !.progress = 1,
                                                 !.results = WorkerResult(outcome = "ok")]
       IN /\ tasks' = IF db_ok /\ HasTask(tasks, task.id)
                      THEN [tasks EXCEPT ![task.id] = UpdateTaskFields(@, task)]
                      ELSE tasks
          /\ loc' = [loc EXCEPT ![a].body = "broadcast", ![a].body_task = task,
                                ![a].outcome = outcome]
    /\ UNCHANGED <<pc, queue, agent_status>>
    /\ RuntimeFrame

\* the broadcast of _complete_task or _fail_task.  When it has ended,
\* self.current_task = None and _update_status(IDLE) sets self.status before
\* its hset, the last call of the task body.  Neither method has a try: an
\* error raised by the broadcast call (the name _broadcast_to_holon is not
\* defined, send_message raises RuntimeError) leaves _complete_task for the
\* except clause of _execute_task, which sets FAILED and runs _fail_task with
\* its update_task and its own broadcast; raised in _fail_task it ends the
\* task body with the status and the current task as they are.
Broadcast(a, raised, db_ok) ==
    /\ loc[a].body = "broadcast"
    /\ IF ~raised
       THEN /\ loc' = [loc EXCEPT ![a].body = "none", ![a].body_task = Null,
                                  ![a].outcome = "none", ![a].current_task = NoId,
                                  ![a].status = "idle", ![a].idle_write = TRUE]
            /\ UNCHANGED tasks
       ELSE IF loc[a].outcome # "raise"
       THEN LET task == [loc[a].body_task EXCEPT !.status = "failed"] IN
            /\ tasks' = IF db_ok /\ HasTask(tasks, task.id)
                        THEN [tasks EXCEPT ![task.id] = UpdateTaskFields(@, task)]
                        ELSE tasks
            /\ loc' = [loc EXCEPT ![a].body_task = task, ![a].outcome = "raise"]
       ELSE /\ loc' = [loc EXCEPT ![a].body = "none", ![a].body_task = Null,
                                  ![a].outcome = "none"]
            /\ UNCHANGED tasks
    /\ UNCHANGED <<pc, queue, agent_status>>
    /\ RuntimeFrame

\* the hset of _update_status(IDLE)
StatusWrite(a) ==
    /\ loc[a].idle_write
    /\ agent_status' = [agent_status EXCEPT ![a] = "idle"]
    /\ loc' = [loc EXCEPT ![a].idle_write = FALSE]
    /\ UNCHANGED <<pc, tasks, queue>>
    /\ RuntimeFrame

\* stop(): self.running = False and _update_status(OFFLINE) sets self.status
\* before its hset.  The factory takes an agent out of its registry before it
\* stops it, so an agent is stopped once.
Stop(a) ==
    /\ pc[a] # "ended"
    /\ loc[a].stop = "none"
    /\ loc' = [loc EXCEPT ![a].stop = "write", ![a].running = FALSE,
                          ![a].status = "offline"]
    /\ UNCHANGED <<pc, tasks, queue, agent_status>>
    /\ RuntimeFrame

\* the hset of the _update_status(OFFLINE) of stop()
StopWrite(a) ==
    /\ loc[a].stop = "write"
    /\ agent_status' = [agent_status EXCEPT ![a] = "offline"]
    /\ loc' = [loc EXCEPT ![a].stop = "done"]
    /\ UNCHANGED <<pc, tasks, queue>>
    /\ RuntimeFrame

InitRuntime ==
    /\ tasks = EmptyZ
    /\ queue = [q \in FaultQueues |-> EmptyZ]
    /\ enq = [q \in FaultQueues |-> <<>>]
    /\ handed = [q \in FaultQueues |-> <<>>]
    /\ default_queue = "task_queue"
    /\ findings = {}
    /\ agent_status = [a \in Agents |-> "idle"]
    /\ next_uuid = 1
    /\ next_entry = 1
    /\ pc = [p \in Procs |-> IF p \in Agents THEN "new" ELSE "idle"]
    /\ loc = [p \in Procs |-> IF p \in Agents THEN NoAgent ELSE NoLoc]
    /\ ret = [p \in Procs |-> NoId]
    /\ processed = {}
    /\ history = FALSE
    /\ pops = 0
    /\ triggered = {}
    /\ early = {}
    /\ active_agents = <<>>
    /\ agent_counter = 0
    /\ agent_states = EmptyZ
    /\ agent_messages = EmptyZ
    /\ message_lists = EmptyZ

\* the steps of the loop of agent a
LoopStep(a) ==
    \/ Start(a)
    \/ LoopHead(a)
    \/ CleanupWrite(a)
    \/ ProcessMessages(a)
    \/ IterationFails(a)
    \/ \E zpop_ok \in BOOLEAN : CheckForTasks(a, zpop_ok)
    \/ \E get_ok \in BOOLEAN, db_ok \in BOOLEAN : ClaimResume(a, get_ok, db_ok)
    \/ AssignWrite(a)
    \/ Sleep(a)

\* the steps of the task body of agent a
BodyStep(a) ==
    \/ \E outcome \in Outcomes, db_ok \in BOOLEAN : ExecuteTask(a, outcome, db_ok)
    \/ \E raised \in BOOLEAN, db_ok \in BOOLEAN : Broadcast(a, raised, db_ok)
    \/ StatusWrite(a)

NextRuntime ==
    \/ \E p \in Clients, priority \in SubmitPriorities, upsert_ok \in BOOLEAN :
          next_uuid <= MaxCalls /\ SharedCreateTask(p, <<"r">>, priority, upsert_ok)
    \/ \E p \in Clients, zadd_ok \in BOOLEAN : SharedZadd(p, zadd_ok)
    \/ \E a \in Workers : LoopStep(a)
    \/ \E a \in Workers : BodyStep(a)
    \/ \E a \in Workers : Stop(a)
    \/ \E a \in Workers : StopWrite(a)

SpecRuntime == InitRuntime /\ [][NextRuntime]_vars

\* the event loop resumes every coroutine whose awaited call or sleep has ended
SpecRuntimeFair ==
    /\ InitRuntime
    /\ [][NextRuntime]_vars
    /\ \A a \in Workers : WF_vars(LoopStep(a))
    /\ \A a \in Workers : WF_vars(BodyStep(a))

\* ------------------------------------------------------------ AgentFactory
\* agent_id = f"research_{agent_number:03d}"
AgentId(agent_number) ==
    "research_" \o (IF agent_number < 10 THEN "00"
                    ELSE IF agent_number < 100 THEN "0" ELSE "")
                \o ToString(agent_number)

\* get_agent_status(agent_id) of an agent that has written none
NoStatus == "none"

Min(a, b) == IF a <= b THEN a ELSE b

\* self.active_agents.pop(agent_id)
Without(reg, agent_id) == SelectSeq(reg, LAMBDA x : x # agent_id)

Registered(reg, agent_id) == \E k \in 1..Len(reg) : reg[k] = agent_id

\* what one ensure_capacity call leaves behind: the registry, the counter and
\* the cached statuses
FactoryState(reg, counter, status) == [reg |-> reg, counter |-> counter, status |-> status]

RECURSIVE SpawnAll(_, _, _)
\* to_spawn calls of _spawn_agent with no check between them; ok[k] says
\* whether the k-th constructor call succeeds
SpawnAll(to_spawn, st, ok) ==
    IF to_spawn = 0 THEN st
    ELSE LET n == st.counter + 1
             done == IF ok[to_spawn]
                     THEN FactoryState(Append(st.reg, AgentId(n)), n,
                                       [x \in DOMAIN st.status \cup {AgentId(n)} |->
                                           IF x = AgentId(n) THEN NoStatus ELSE st.status[x]])
                     ELSE FactoryState(st.reg, n, st.status)
         IN SpawnAll(to_spawn - 1, done, ok)

\* ensure_capacity with neither min(required, max_agents) nor the check of the loop
EnsureCapacityNoCeiling(required, st, ok) ==
    IF Len(st.reg) >= required THEN st
    ELSE SpawnAll(required - Len(st.reg), st, ok)

RECURSIVE SpawnLoopReuse(_, _, _)
\* a spawn loop that numbers a new agent by the size of the registry
SpawnLoopReuse(to_spawn, st, ok) ==
    IF to_spawn = 0 \/ Len(st.reg) >= max_agents THEN st
    ELSE LET n == Len(st.reg) + 1
             done == IF ok[to_spawn]
                     THEN FactoryState(Append(st.reg, AgentId(n)), st.counter + 1,
                                       [x \in DOMAIN st.status \cup {AgentId(n)} |->
                                           IF x = AgentId(n) THEN NoStatus ELSE st.status[x]])
                     ELSE FactoryState(st.reg, st.counter + 1, st.status)
         IN SpawnLoopReuse(to_spawn - 1, done, ok)

RECURSIVE SpawnLoop(_, _, _)
\* for _ in range(to_spawn): if len(self.active_agents) >= self.max_agents: break
\*                           agent = await self._spawn_agent()
SpawnLoop(to_spawn, st, ok) ==
    IF to_spawn = 0 \/ Len(st.reg) >= max_agents THEN st
    ELSE LET n == st.counter + 1
             done == IF ok[to_spawn]
                     THEN FactoryState(Append(st.reg, AgentId(n)), n,
                                       [x \in DOMAIN st.status \cup {AgentId(n)} |->
                                           IF x = AgentId(n) THEN NoStatus ELSE st.status[x]])
                     ELSE FactoryState(st.reg, n, st.status)
         IN SpawnLoop(to_spawn - 1, done, ok)

\* required = min(required, self.max_agents); current_count = len(...);
\* if current_count >= required: return 0; to_spawn = required - current_count
EnsureCapacityRun(required, st, ok) ==
    IF Len(st.reg) >= Min(required, max_agents) THEN st
    ELSE SpawnLoop(Min(required, max_agents) - Len(st.reg), st, ok)

\* a floor test that lets the last agent go: len(self.active_agents) >= 1
AtFloor(n) == n >= 1

\* len(self.active_agents) > 1
AboveFloor(n) == n > 1

NoFactoryLoc == [snapshot |-> <<>>, i |-> 0, removed |-> 0, status |-> NoStatus,
                 agent |-> "", n |-> 0]

\* the synchronous part of agent.stop(), on the instance where the agents run:
\* self.running = False, and _update_status(OFFLINE) sets self.status
StopCalled(l, agent) ==
    IF agent \in DOMAIN l
    THEN [l EXCEPT ![agent] = [@ EXCEPT !.running = FALSE, !.status = "offline",
                                        !.stop = "write"]]
    ELSE l

\* agent.stop() has returned
StopEnded(l, agent) ==
    IF agent \in DOMAIN l THEN [l EXCEPT ![agent] = [@ EXCEPT !.stop = "done"]] ELSE l

\* caller p goes to label with locals l; instances are the records of the
\* callers and agents after the stop() calls of the step
FactoryStep(p, label, l, instances) ==
    /\ pc' = [pc EXCEPT ![p] = label]
    /\ loc' = [instances EXCEPT ![p] = l]

FactoryReturn(p) == FactoryStep(p, "idle", NoFactoryLoc, loc)

FactoryGoto(p, label, l) == FactoryStep(p, label, l, loc)

StoreUnchanged ==
    UNCHANGED <<tasks, queue, findings, default_queue, agent_states, agent_messages, message_lists, next_uuid, next_entry,
                processed, history, enq, handed, pops, triggered, early>>

\* ensure_capacity(required): no await in it suspends, _spawn_agent has none;
\* ret keeps what the latest call was asked and returned
EnsureCapacity(p, required) ==
    /\ pc[p] = "idle"
    /\ agent_counter + required <= MaxCounter
    /\ \E ok \in [1..required -> BOOLEAN] :
          LET st == EnsureCapacityRun(required,
                        FactoryState(active_agents, agent_counter, agent_status), ok)
          IN /\ active_agents' = st.reg
             /\ agent_counter' = st.counter
             /\ agent_status' = st.status
             /\ ret' = [q \in Callers |->
                          IF q = p
                          THEN [required |-> required,
                                spawned |-> Len(st.reg) - Len(active_agents)]
                          ELSE NoId]
    /\ UNCHANGED <<pc, loc>>
    /\ StoreUnchanged

\* the next iteration of the loop of shrink_idle, or its return
ShrinkNext(p, l, instances) ==
    IF l.i < Len(l.snapshot)
    THEN FactoryStep(p, "shrink_status", [l EXCEPT !.i = @ + 1], instances)
    ELSE FactoryStep(p, "idle", NoFactoryLoc, instances)

\* shrink_idle: for agent_id in list(self.active_agents.keys()):
ShrinkStart(p) ==
    /\ pc[p] = "idle"
    /\ IF active_agents = <<>>
       THEN FactoryReturn(p)
       ELSE FactoryGoto(p, "shrink_status",
                        [NoFactoryLoc EXCEPT !.snapshot = active_agents, !.i = 1])
    /\ UNCHANGED <<active_agents, agent_counter, agent_status>>
    /\ UNCHANGED ret
    /\ StoreUnchanged

\* status = await get_agent_status(agent_id): the cache answers
ShrinkStatus(p) ==
    /\ pc[p] = "shrink_status"
    /\ FactoryGoto(p, "shrink_decide",
                   [loc[p] EXCEPT !.status = agent_status[loc[p].snapshot[loc[p].i]]])
    /\ UNCHANGED <<active_agents, agent_counter, agent_status>>
    /\ UNCHANGED ret
    /\ StoreUnchanged

\* if status == "idle": if len(self.active_agents) > 1:
\*     agent = self.active_agents.pop(agent_id)     (KeyError for an id gone)
ShrinkDecide(p) ==
    /\ pc[p] = "shrink_decide"
    /\ LET agent_id == loc[p].snapshot[loc[p].i] IN
       IF loc[p].status = "idle" /\ AboveFloor(Len(active_agents))
       THEN IF Registered(active_agents, agent_id)
            THEN /\ active_agents' = Without(active_agents, agent_id)
                 /\ FactoryStep(p, "shrink_stop", [loc[p] EXCEPT !.agent = agent_id],
                                StopCalled(loc, agent_id))
            ELSE /\ UNCHANGED active_agents
                 /\ FactoryReturn(p)
       ELSE /\ UNCHANGED active_agents
            /\ ShrinkNext(p, loc[p], loc)
    /\ UNCHANGED <<agent_counter, agent_status>>
    /\ UNCHANGED ret
    /\ StoreUnchanged

\* await agent.stop(); removed += 1
ShrinkStop(p) ==
    /\ pc[p] = "shrink_stop"
    /\ agent_status' = [agent_status EXCEPT ![loc[p].agent] = "offline"]
    /\ ShrinkNext(p, [loc[p] EXCEPT !.removed = @ + 1], StopEnded(loc, loc[p].agent))
    /\ UNCHANGED <<active_agents, agent_counter>>
    /\ UNCHANGED ret
    /\ StoreUnchanged

\* shutdown_all: for agent in self.active_agents.values(): await agent.stop()
ShutdownStart(p) ==
    /\ pc[p] = "idle"
    /\ IF active_agents = <<>>
       THEN FactoryReturn(p)
       ELSE FactoryStep(p, "shutdown_stop",
                        [NoFactoryLoc EXCEPT !.i = 1, !.n = Len(active_agents),
                                             !.agent = active_agents[1]],
                        StopCalled(loc, active_agents[1]))
    /\ UNCHANGED <<active_agents, agent_counter, agent_status>>
    /\ UNCHANGED ret
    /\ StoreUnchanged

\* one stop() has ended; the iterator raises if the dict changed size, goes on
\* to the next agent, or is exhausted and self.active_agents.clear() runs
ShutdownStop(p) ==
    /\ pc[p] = "shutdown_stop"
    /\ agent_status' = [agent_status EXCEPT ![loc[p].agent] = "offline"]
    /\ IF Len(active_agents) # loc[p].n
       THEN /\ UNCHANGED active_agents
            /\ FactoryStep(p, "idle", NoFactoryLoc, StopEnded(loc, loc[p].agent))
       ELSE IF loc[p].i < loc[p].n
       THEN /\ UNCHANGED active_agents
            /\ FactoryStep(p, "shutdown_stop",
                           [loc[p] EXCEPT !.i = @ + 1,
                                          !.agent = active_agents[loc[p].i + 1]],
                           StopCalled(StopEnded(loc, loc[p].agent),
                                      active_agents[loc[p].i + 1]))
       ELSE /\ active_agents' = <<>>
            /\ FactoryStep(p, "idle", NoFactoryLoc, StopEnded(loc, loc[p].agent))
    /\ UNCHANGED agent_counter
    /\ UNCHANGED ret
    /\ StoreUnchanged

\* set_agent_status(agent_id, "working") of claim_task and
\* set_agent_status(agent_id, 'idle') of complete_task, by a spawned agent
AgentSetStatus(agent_id, status) ==
    /\ agent_id \in DOMAIN agent_status
    /\ agent_status[agent_id] # "offline"
    /\ agent_status[agent_id] # status
    /\ agent_status' = [agent_status EXCEPT ![agent_id] = status]
    /\ UNCHANGED <<active_agents, agent_counter, pc, loc>>
    /\ UNCHANGED ret
    /\ StoreUnchanged

InitFactory ==
    /\ tasks = EmptyZ
    /\ queue = [q \in QueueNames |-> EmptyZ]
    /\ enq = [q \in QueueNames |-> <<>>]
    /\ handed = [q \in QueueNames |-> <<>>]
    /\ default_queue = "task_queue"
    /\ findings = {}
    /\ next_uuid = 1
    /\ next_entry = 1
    /\ ret = [p \in Callers |-> NoId]
    /\ processed = {}
    /\ history = FALSE
    /\ pops = 0
    /\ triggered = {}
    /\ early = {}
    /\ agent_status = EmptyZ
    /\ active_agents = <<>>
    /\ agent_counter = 0
    /\ agent_states = EmptyZ
    /\ agent_messages = EmptyZ
    /\ message_lists = EmptyZ
    /\ pc = [p \in Callers |-> "idle"]
    /\ loc = [p \in Callers |-> NoFactoryLoc]

NextFactory ==
    \/ \E p \in Callers, required \in 0..(max_agents + 1) : EnsureCapacity(p, required)
    \/ \E p \in Callers : ShrinkStart(p)
    \/ \E p \in Callers : ShrinkStatus(p)
    \/ \E p \in Callers : ShrinkDecide(p)
    \/ \E p \in Callers : ShrinkStop(p)
    \/ \E p \in Callers : ShutdownStart(p)
    \/ \E p \in Callers : ShutdownStop(p)
    \/ \E n \in 1..MaxCounter, status \in {"idle", "working"} :
          AgentSetStatus(AgentId(n), status)

SpecFactory == InitFactory /\ [][NextFactory]_vars

\* ------------------------------------------- AgentFactory with its agents
\* the agents one AgentFactory can spawn
FactoryAgents == {AgentId(n) : n \in 1..MaxSpawned}

\* _spawn_agent has run asyncio.create_task(agent.start()) for the agent
Spawned(a) == a \in DOMAIN agent_status

\* the caller that owns the factory: it calls ensure_capacity and
\* shutdown_all one after the other
Owner == "f1"

\* one task waits in queue:tasks; no agent is spawned yet
InitLifecycle ==
    /\ tasks = InsertTask(EmptyZ, Uuid(1), NewTask(<<"r">>, 9, NoType))
    /\ queue = [q \in FaultQueues |-> IF q = SharedQueue THEN ZAdd(EmptyZ, Uuid(1), 9)
                                                         ELSE EmptyZ]
    /\ enq = [q \in FaultQueues |-> <<>>]
    /\ handed = [q \in FaultQueues |-> <<>>]
    /\ default_queue = "task_queue"
    /\ findings = {}
    /\ next_uuid = 2
    /\ next_entry = 1
    /\ ret = [p \in Callers |-> NoId]
    /\ processed = {}
    /\ history = FALSE
    /\ pops = 0
    /\ triggered = {}
    /\ early = {}
    /\ agent_status = EmptyZ
    /\ active_agents = <<>>
    /\ agent_counter = 0
    /\ agent_states = EmptyZ
    /\ agent_messages = EmptyZ
    /\ message_lists = EmptyZ
    /\ pc = [p \in Callers \cup FactoryAgents |-> IF p \in Callers THEN "idle" ELSE "new"]
    /\ loc = [p \in Callers \cup FactoryAgents |->
                 IF p \in Callers THEN NoFactoryLoc ELSE NoAgent]

NextLifecycle ==
    \/ \E required \in 0..(max_agents + 1) :
          agent_counter + required <= MaxSpawned /\ EnsureCapacity(Owner, required)
    \/ ShutdownStart(Owner)
    \/ ShutdownStop(Owner)
    \/ \E a \in FactoryAgents : Spawned(a) /\ LoopStep(a)
    \/ \E a \in FactoryAgents : Spawned(a) /\ BodyStep(a)

SpecLifecycle == InitLifecycle /\ [][NextLifecycle]_vars

\* the task body of agent a where process_task returns its result and neither
\* the database nor the broadcast fails
BodyRuns(a) ==
    \/ ExecuteTask(a, "ok", TRUE)
    \/ Broadcast(a, FALSE, TRUE)
    \/ StatusWrite(a)

\* the owner calls ensure_capacity and shrink_idle one after the other while
\* the spawned agents run their loops and task bodies
NextShrink ==
    \/ \E required \in 0..(max_agents + 1) :
          agent_counter + required <= MaxSpawned /\ EnsureCapacity(Owner, required)
    \/ ShrinkStart(Owner)
    \/ ShrinkStatus(Owner)
    \/ ShrinkDecide(Owner)
    \/ ShrinkStop(Owner)
    \/ \E a \in FactoryAgents : Spawned(a) /\ LoopStep(a)
    \/ \E a \in FactoryAgents : Spawned(a) /\ BodyRuns(a)

\* two tasks wait in queue:tasks; no agent is spawned yet
InitShrink ==
    /\ tasks = InsertTask(InsertTask(EmptyZ, Uuid(1), NewTask(<<"r">>, 9, NoType)),
                          Uuid(2), NewTask(<<"r">>, 5, NoType))
    /\ queue = [q \in FaultQueues |->
                  IF q = SharedQueue THEN ZAdd(ZAdd(EmptyZ, Uuid(1), 9), Uuid(2), 5)
                                     ELSE EmptyZ]
    /\ enq = [q \in FaultQueues |-> <<>>]
    /\ handed = [q \in FaultQueues |-> <<>>]
    /\ default_queue = "task_queue"
    /\ findings = {}
    /\ next_uuid = 3
    /\ next_entry = 1
    /\ ret = [p \in Callers |-> NoId]
    /\ processed = {}
    /\ history = FALSE
    /\ pops = 0
    /\ triggered = {}
    /\ early = {}
    /\ agent_status = EmptyZ
    /\ active_agents = <<>>
    /\ agent_counter = 0
    /\ agent_states = EmptyZ
    /\ agent_messages = EmptyZ
    /\ message_lists = EmptyZ
    /\ pc = [p \in Callers \cup FactoryAgents |-> IF p \in Callers THEN "idle" ELSE "new"]
    /\ loc = [p \in Callers \cup FactoryAgents |->
                 IF p \in Callers THEN NoFactoryLoc ELSE NoAgent]

SpecShrink == InitShrink /\ [][NextShrink]_vars

\* ------------------------------------------ SharedState: agent statuses
\* AgentStatus values a caller writes
AgentStatuses == {"idle", "working", "offline"}

\* the callers of update_agent_status and get_agent_status: an agent, in its
\* _update_status, and a holon or client
StatusCallers == {"a1", "client"}

\* Python None as a returned value
PyNone == <<"None">>

StatusFrame ==
    UNCHANGED <<tasks, queue, findings, default_queue, agent_messages, message_lists, active_agents,
                agent_counter, next_uuid, next_entry, processed, history, enq,
                handed, pops, triggered, early>>

\* update_agent_status(agent_id, status): the update of the table
\* agent_states runs first and does not suspend; an error of it is caught and
\* False returned; after it the call awaits the hset of the cache
UpdateAgentStatus(p, agent_id, status, db_ok) ==
    /\ pc[p] = "idle"
    /\ IF db_ok
       THEN /\ agent_states' = [agent_states EXCEPT ![agent_id] = status]
            /\ Goto(p, "status_hset", [agent_id |-> agent_id, status |-> status])
       ELSE /\ UNCHANGED agent_states
            /\ Return(p, PyFalse)
    /\ UNCHANGED agent_status
    /\ StatusFrame

\* await self.redis.hset(f"agent:{agent_id}", "status", status); return True,
\* or False from the except clause where the hset raises
UpdateAgentStatusHset(p, hset_ok) ==
    /\ pc[p] = "status_hset"
    /\ IF hset_ok
       THEN /\ agent_status' = [agent_status EXCEPT ![loc[p].agent_id] = loc[p].status]
            /\ Return(p, PyTrue)
       ELSE /\ UNCHANGED agent_status
            /\ Return(p, PyFalse)
    /\ UNCHANGED agent_states
    /\ StatusFrame

\* get_agent_status(agent_id) is called: its first await is the hget
GetAgentStatus(p, agent_id) ==
    /\ pc[p] = "idle"
    /\ Goto(p, "status_hget", [agent_id |-> agent_id, status |-> NoStatus])
    /\ UNCHANGED <<agent_status, agent_states>>
    /\ StatusFrame

\* the hget has ended: the cached status if there is one, else the status
\* column of the row of agent_states; None where either call raises
GetAgentStatusResume(p, hget_ok, db_ok) ==
    /\ pc[p] = "status_hget"
    /\ LET agent_id == loc[p].agent_id IN
       IF ~hget_ok THEN Return(p, PyNone)
       ELSE IF agent_status[agent_id] # NoStatus THEN Return(p, <<agent_status[agent_id]>>)
       ELSE IF ~db_ok THEN Return(p, PyNone)
       ELSE Return(p, <<agent_states[agent_id]>>)
    /\ UNCHANGED <<agent_status, agent_states>>
    /\ StatusFrame

\* the key agent:{id}, which register_agent sets to expire after an hour,
\* expires
CacheExpire(agent_id) ==
    /\ agent_status[agent_id] # NoStatus
    /\ agent_status' = [agent_status EXCEPT ![agent_id] = NoStatus]
    /\ UNCHANGED <<agent_states, pc, loc, ret>>
    /\ StatusFrame

\* every agent is registered with status idle, in the table and in the cache
InitStatus ==
    /\ tasks = EmptyZ
    /\ queue = [q \in FaultQueues |-> EmptyZ]
    /\ enq = [q \in FaultQueues |-> <<>>]
    /\ handed = [q \in FaultQueues |-> <<>>]
    /\ default_queue = "task_queue"
    /\ findings = {}
    /\ agent_status = [a \in Agents |-> "idle"]
    /\ agent_states = [a \in Agents |-> "idle"]
    /\ agent_messages = EmptyZ
    /\ message_lists = EmptyZ
    /\ next_uuid = 1
    /\ next_entry = 1
    /\ pc = [p \in Procs |-> "idle"]
    /\ loc = [p \in Procs |-> NoLoc]
    /\ ret = [p \in Procs |-> NoId]
    /\ processed = {}
    /\ history = FALSE
    /\ pops = 0
    /\ triggered = {}
    /\ early = {}
    /\ active_agents = <<>>
    /\ agent_counter = 0

NextStatus ==
    \/ \E p \in StatusCallers, agent_id \in Workers, status \in AgentStatuses, db_ok \in BOOLEAN :
          UpdateAgentStatus(p, agent_id, status, db_ok)
    \/ \E p \in StatusCallers, hset_ok \in BOOLEAN : UpdateAgentStatusHset(p, hset_ok)
    \/ \E p \in StatusCallers, agent_id \in Workers : GetAgentStatus(p, agent_id)
    \/ \E p \in StatusCallers, hget_ok \in BOOLEAN, db_ok \in BOOLEAN :
          GetAgentStatusResume(p, hget_ok, db_ok)
    \/ \E agent_id \in Workers : CacheExpire(agent_id)

SpecStatus == InitStatus /\ [][NextStatus]_vars

\* ------------------------------------------------ SharedState: messages
\* A row of agent_messages keeps the two recipient columns as the A2AMessage
\* carries them (both Optional, no validator), the processed flag, and how old
\* its timestamp is.  The handlers modelled are the ones that send nothing
\* themselves (status updates, result sharing, task assignment).
Holons == {"h1"}

\* the holon an agent's row of agent_states names
HolonOf == [a \in Agents |-> "h1"]

\* None where the id of an agent or of a holon is expected
None == "None"

\* the values of to_agent and of holon_broadcast: None or an id
Recipients == {None} \cup Workers
Broadcasts == {None} \cup Holons

Sender == "client"
Sweeper == "sweep"

\* how old a timestamp is: newer than the message's ttl, past its ttl, and
\* more than one hour, the cutoff of _message_processing_loop
Fresh == 0
PastTtl == 1
PastHour == 2

\* queue_key of send_message
MessageKey(to_agent, holon_broadcast) ==
    IF to_agent # None THEN "messages:" \o to_agent
    ELSE "messages:holon:" \o holon_broadcast

LPush(L, key, id) ==
    IF key \in DOMAIN L THEN [L EXCEPT ![key] = <<id>> \o @]
    ELSE L @@ (key :> <<id>>)

\* _get_direct_messages(agent_id): the unprocessed rows with to_agent =
\* agent_id, in the order they were inserted
GetDirectMessages(agent_id) ==
    SelectSeq([n \in 1..MaxMessages |-> Uuid(n)],
              LAMBDA m : /\ m \in DOMAIN agent_messages
                         /\ agent_messages[m].to_agent = agent_id
                         /\ ~agent_messages[m].processed)

\* _get_holon_messages(holon_id): the unprocessed rows with holon_broadcast =
\* holon_id
GetHolonMessages(holon_id) ==
    SelectSeq([n \in 1..MaxMessages |-> Uuid(n)],
              LAMBDA m : /\ m \in DOMAIN agent_messages
                         /\ agent_messages[m].holon_broadcast = holon_id
                         /\ ~agent_messages[m].processed)

MessagesFrame ==
    UNCHANGED <<tasks, queue, findings, agent_status, default_queue, agent_states,
                active_agents, agent_counter, next_entry, processed, history, enq,
                handed, pops, triggered, early>>

\* send_message(message): the row is inserted with both recipient columns as
\* given and processed False; the insert does not suspend; an error of it is
\* caught and False returned; after it the call awaits the lpush
SendMessage(p, to_agent, holon_broadcast, db_ok) ==
    /\ pc[p] = "idle"
    /\ next_uuid <= MaxMessages
    /\ next_uuid' = next_uuid + 1
    /\ IF db_ok
       THEN /\ agent_messages' = agent_messages @@
                   (Uuid(next_uuid) :> [to_agent |-> to_agent,
                                        holon_broadcast |-> holon_broadcast,
                                        processed |-> FALSE, age |-> Fresh])
            /\ Goto(p, "send_lpush", [id |-> Uuid(next_uuid),
                                      queue_key |-> MessageKey(to_agent, holon_broadcast)])
       ELSE /\ UNCHANGED agent_messages
            /\ Return(p, PyFalse)
    /\ UNCHANGED message_lists
    /\ MessagesFrame

\* await self.redis.lpush(queue_key, message.id); return True, or False from
\* the except clause where the lpush raises
SendMessageLpush(p, lpush_ok) ==
    /\ pc[p] = "send_lpush"
    /\ IF lpush_ok
       THEN /\ message_lists' = LPush(message_lists, loc[p].queue_key, loc[p].id)
            /\ Return(p, PyTrue)
       ELSE /\ UNCHANGED message_lists
            /\ Return(p, PyFalse)
    /\ UNCHANGED <<agent_messages, next_uuid>>
    /\ MessagesFrame

\* _process_messages calls get_messages_for_agent: the unprocessed rows with
\* to_agent = agent_id are selected, then the call awaits the hget of the
\* agent's holon; where the select raises the call returns [] and
\* _process_messages ends
GetMessages(a, db_ok) ==
    /\ pc[a] = "idle"
    /\ IF db_ok
       THEN Goto(a, "messages_hget",
                 [direct_messages |-> GetDirectMessages(a)])
       ELSE Return(a, <<>>)
    /\ UNCHANGED <<agent_messages, message_lists, next_uuid>>
    /\ MessagesFrame

\* the hget has ended (an error of it is caught in _get_agent_holon and gives
\* no holon): the unprocessed rows with holon_broadcast = the holon are
\* selected and appended; then the for loop of _process_messages runs without
\* suspending: each message whose handler and whose mark_messages_processed
\* both end normally (the ones in handled) gets processed = True, the others
\* are logged and left
ProcessMessagesLoop(a, hget_ok, db_ok, handled) ==
    /\ pc[a] = "messages_hget"
    /\ LET agent_holon == IF hget_ok THEN HolonOf[a] ELSE None
           holon_messages == IF agent_holon = None THEN <<>>
                             ELSE GetHolonMessages(agent_holon)
           messages == IF db_ok \/ agent_holon = None
                       THEN loc[a].direct_messages \o holon_messages
                       ELSE <<>>
           done == {messages[k] : k \in {j \in 1..Len(messages) : messages[j] \in handled}}
       IN
       /\ agent_messages' = [m \in DOMAIN agent_messages |->
                                IF m \in done THEN [agent_messages[m] EXCEPT !.processed = TRUE]
                                ELSE agent_messages[m]]
       /\ Return(a, messages)
    /\ UNCHANGED <<message_lists, next_uuid>>
    /\ MessagesFrame

\* _message_processing_loop, which initialize() schedules once: the rows with
\* a timestamp older than one hour and processed = True are deleted, then it
\* sleeps (300 s, or 60 s after an error) and ends: it has no loop, and no
\* row's ttl is read
MessageProcessingLoop(db_ok) ==
    /\ pc[Sweeper] = "scheduled"
    /\ agent_messages' =
          IF db_ok
          THEN [m \in {x \in DOMAIN agent_messages :
                          ~(agent_messages[x].age = PastHour /\ agent_messages[x].processed)}
                   |-> agent_messages[m]]
          ELSE agent_messages
    /\ pc' = [pc EXCEPT ![Sweeper] = "sleep"]
    /\ UNCHANGED <<loc, ret, message_lists, next_uuid>>
    /\ MessagesFrame

MessageProcessingLoopEnds ==
    /\ pc[Sweeper] = "sleep"
    /\ pc' = [pc EXCEPT ![Sweeper] = "done"]
    /\ UNCHANGED <<loc, ret, agent_messages, message_lists, next_uuid>>
    /\ MessagesFrame

\* time passes: the timestamp of message n gets older; it is older than one
\* hour only after the messages sent before it are
Tick(n) ==
    /\ Uuid(n) \in DOMAIN agent_messages
    /\ agent_messages[Uuid(n)].age < PastHour
    /\ agent_messages[Uuid(n)].age + 1 = PastHour =>
          \A k \in 1..(n - 1) : Uuid(k) \in DOMAIN agent_messages
                                   => agent_messages[Uuid(k)].age = PastHour
    /\ agent_messages' = [agent_messages EXCEPT ![Uuid(n)].age = @ + 1]
    /\ UNCHANGED <<pc, loc, ret, message_lists, next_uuid>>
    /\ MessagesFrame

\* initialize() has run: no message yet, the sweep scheduled
InitMessages ==
    /\ tasks = EmptyZ
    /\ queue = [q \in FaultQueues |-> EmptyZ]
    /\ enq = [q \in FaultQueues |-> <<>>]
    /\ handed = [q \in FaultQueues |-> <<>>]
    /\ default_queue = "task_queue"
    /\ findings = {}
    /\ agent_status = [a \in Agents |-> "idle"]
    /\ agent_states = [a \in Agents |-> "idle"]
    /\ agent_messages = EmptyZ
    /\ message_lists = EmptyZ
    /\ next_uuid = 1
    /\ next_entry = 1
    /\ pc = [p \in Workers \cup {Sender, Sweeper} |->
                IF p = Sweeper THEN "scheduled" ELSE "idle"]
    /\ loc = [p \in Workers \cup {Sender, Sweeper} |-> NoLoc]
    /\ ret = [p \in Workers \cup {Sender, Sweeper} |-> NoId]
    /\ processed = {}
    /\ history = FALSE
    /\ pops = 0
    /\ triggered = {}
    /\ early = {}
    /\ active_agents = <<>>
    /\ agent_counter = 0

SenderStep ==
    \/ \E to_agent \in Recipients, holon_broadcast \in Broadcasts, db_ok \in BOOLEAN :
          SendMessage(Sender, to_agent, holon_broadcast, db_ok)
    \/ \E lpush_ok \in BOOLEAN : SendMessageLpush(Sender, lpush_ok)

ReaderStep(a) ==
    \/ \E db_ok \in BOOLEAN : GetMessages(a, db_ok)
    \/ \E hget_ok \in BOOLEAN, db_ok \in BOOLEAN,
          handled \in SUBSET {Uuid(n) : n \in 1..MaxMessages} :
          ProcessMessagesLoop(a, hget_ok, db_ok, handled)

SweepStep ==
    \/ \E db_ok \in BOOLEAN : MessageProcessingLoop(db_ok)
    \/ MessageProcessingLoopEnds

NextMessages ==
    \/ SenderStep
    \/ \E a \in Workers : ReaderStep(a)
    \/ SweepStep
    \/ \E n \in 1..MaxMessages : Tick(n)

SpecMessages == InitMessages /\ [][NextMessages]_vars

\* the event loop runs every task that can run, and time passes
SpecMessagesFair ==
    /\ SpecMessages
    /\ \A a \in Workers : WF_vars(ReaderStep(a))
    /\ WF_vars(SweepStep)
    /\ \A n \in 1..MaxMessages : WF_vars(Tick(n))

\* two agents of one holon poll their messages; every select, every hget,
\* every handler and every mark_messages_processed ends normally
HolonReader(a) ==
    \/ GetMessages(a, TRUE)
    \/ ProcessMessagesLoop(a, TRUE, TRUE, {Uuid(n) : n \in 1..MaxMessages})

InitBroadcast ==
    /\ tasks = EmptyZ
    /\ queue = [q \in FaultQueues |-> EmptyZ]
    /\ enq = [q \in FaultQueues |-> <<>>]
    /\ handed = [q \in FaultQueues |-> <<>>]
    /\ default_queue = "task_queue"
    /\ findings = {}
    /\ agent_status = [a \in Agents |-> "idle"]
    /\ agent_states = [a \in Agents |-> "idle"]
    /\ agent_messages = EmptyZ
    /\ message_lists = EmptyZ
    /\ next_uuid = 1
    /\ next_entry = 1
    /\ pc = [p \in Agents \cup {Sender} |-> "idle"]
    /\ loc = [p \in Agents \cup {Sender} |-> NoLoc]
    /\ ret = [p \in Agents \cup {Sender} |-> NoId]
    /\ processed = {}
    /\ history = FALSE
    /\ pops = 0
    /\ triggered = {}
    /\ early = {}
    /\ active_agents = <<>>
    /\ agent_counter = 0

NextBroadcast ==
    \/ SenderStep
    \/ \E a \in Agents : HolonReader(a)

\* the loop of every agent goes on polling
SpecBroadcast ==
    /\ InitBroadcast
    /\ [][NextBroadcast]_vars
    /\ \A a \in Agents : WF_vars(HolonReader(a))

\* ------------------------------------------------ the [CFG ...] directive
\* A string is a sequence of characters; the keywords of the header ([CFG,
\* name=, role=, model=, sys=) are single elements, which no field value
\* contains.
Quote == "\""
Backslash == "\\"
Bracket == "]"
Alphabet == {"a", Quote, Backslash, Bracket}

BrainHive == "brain_hive_001"
WorkerAgent == "w1"
ResearchAgent == "research_001"

\* the task texts: the characters of the fields and the space
TaskTexts == UNION {[1..k -> Alphabet \cup {" "}] : k \in 0..MaxTaskLen}

\* a key _parse_cfg_header leaves out of config
Missing == <<"missing">>

StringsUpTo(n) == UNION {[1..k -> Alphabet] : k \in 0..n}

\* the index of the first c in s at or after from, 0 if there is none
Find(s, c, from) ==
    LET at == {k \in from..Len(s) : s[k] = c} IN
    IF at = {} THEN 0 ELSE CHOOSE k \in at : \A j \in at : k <= j

\* s.replace('"', '\\"')
RECURSIVE EscapeQuotes(_)
EscapeQuotes(s) ==
    IF s = <<>> THEN <<>>
    ELSE IF Head(s) = Quote THEN <<Backslash, Quote>> \o EscapeQuotes(Tail(s))
    ELSE <<Head(s)>> \o EscapeQuotes(Tail(s))

\* s.replace('\\"', '"')
RECURSIVE UnescapeQuotes(_)
UnescapeQuotes(s) ==
    IF Len(s) < 2 THEN s
    ELSE IF s[1] = Backslash /\ s[2] = Quote
    THEN <<Quote>> \o UnescapeQuotes(SubSeq(s, 3, Len(s)))
    ELSE <<s[1]>> \o UnescapeQuotes(Tail(s))

\* the subtask process_task builds for one assignment: the header, with the
\* quotes of the system prompt alone escaped, a space and the task
Subtask(assignment) ==
    LET sys_prompt == EscapeQuotes(assignment.system_prompt) IN
    <<"[CFG", " ", "name=", Quote>> \o assignment.name
        \o <<Quote, " ", "role=", Quote>> \o assignment.role
        \o <<Quote, " ", "model=", Quote>> \o assignment.model
        \o <<Quote, " ", "sys=", Quote>> \o sys_prompt
        \o <<Quote, Bracket>> \o <<" ">> \o assignment.task

\* re.search(r'\[CFG\s+(.*?)\]', task).group(1): what follows the first
\* "[CFG" and its spaces, up to the first closing bracket after it; Missing
\* where there is no match
RECURSIVE SkipSpaces(_, _)
SkipSpaces(s, i) == IF i <= Len(s) /\ s[i] = " " THEN SkipSpaces(s, i + 1) ELSE i

CfgStr(task) ==
    LET starts == {k \in 1..Len(task) :
                      /\ task[k] = "[CFG"
                      /\ k + 1 <= Len(task) /\ task[k + 1] = " "
                      /\ Find(task, Bracket, SkipSpaces(task, k + 1)) # 0}
    IN
    IF starts = {} THEN Missing
    ELSE LET k == CHOOSE x \in starts : \A y \in starts : x <= y
             b == SkipSpaces(task, k + 1)
         IN SubSeq(task, b, Find(task, Bracket, b) - 1)

\* re.search(key + r'"([^"]*)"', cfg_str).group(1): at the first place where
\* the key, a quote and a later quote are found, what stands between the quotes
QuotedField(cfg_str, key) ==
    LET starts == {k \in 1..Len(cfg_str) :
                      /\ cfg_str[k] = key
                      /\ k + 1 <= Len(cfg_str) /\ cfg_str[k + 1] = Quote
                      /\ Find(cfg_str, Quote, k + 2) # 0}
    IN
    IF starts = {} THEN Missing
    ELSE LET k == CHOOSE x \in starts : \A y \in starts : x <= y
         IN SubSeq(cfg_str, k + 2, Find(cfg_str, Quote, k + 2) - 1)

\* where ((?:[^"\\]|\\.)*)" ends when it starts at i: characters other than
\* quote and backslash are taken one by one, a backslash together with the
\* character after it; the index of the quote that closes the group, 0 if
\* the string ends first
RECURSIVE SysEnd(_, _)
SysEnd(s, i) ==
    IF i > Len(s) THEN 0
    ELSE IF s[i] = Quote THEN i
    ELSE IF s[i] = Backslash THEN (IF i + 1 <= Len(s) THEN SysEnd(s, i + 2) ELSE 0)
    ELSE SysEnd(s, i + 1)

\* re.search(r'sys="((?:[^"\\]|\\.)*)"', cfg_str).group(1).replace('\\"', '"')
SysField(cfg_str) ==
    LET starts == {k \in 1..Len(cfg_str) :
                      /\ cfg_str[k] = "sys="
                      /\ k + 1 <= Len(cfg_str) /\ cfg_str[k + 1] = Quote
                      /\ SysEnd(cfg_str, k + 2) # 0}
    IN
    IF starts = {} THEN Missing
    ELSE LET k == CHOOSE x \in starts : \A y \in starts : x <= y
         IN UnescapeQuotes(SubSeq(cfg_str, k + 2, SysEnd(cfg_str, k + 2) - 1))

\* _parse_cfg_header(task): config, with Missing for a key it does not set
ParseCfgHeader(task) ==
    LET cfg_str == CfgStr(task) IN
    IF cfg_str = Missing
    THEN [name |-> Missing, role |-> Missing, model |-> Missing, system_prompt |-> Missing]
    ELSE [name |-> QuotedField(cfg_str, "name="),
          role |-> QuotedField(cfg_str, "role="),
          model |-> QuotedField(cfg_str, "model="),
          system_prompt |-> SysField(cfg_str)]

\* s.strip()
RECURSIVE LStrip(_)
LStrip(s) == IF s # <<>> /\ Head(s) = " " THEN LStrip(Tail(s)) ELSE s

RECURSIVE RStrip(_)
RStrip(s) == IF s # <<>> /\ s[Len(s)] = " " THEN RStrip(SubSeq(s, 1, Len(s) - 1)) ELSE s

Strip(s) == RStrip(LStrip(s))

\* re.sub(r'\[CFG\s+.*?\]\s*', '', task) from index i on: wherever "[CFG",
\* spaces and a later closing bracket are found, the text up to the first
\* such bracket and the spaces after it are removed; every occurrence is
RECURSIVE SubCfg(_, _)
SubCfg(task, i) ==
    IF i > Len(task) THEN <<>>
    ELSE IF /\ task[i] = "[CFG"
            /\ i + 1 <= Len(task) /\ task[i + 1] = " "
            /\ Find(task, Bracket, SkipSpaces(task, i + 1)) # 0
    THEN SubCfg(task, SkipSpaces(task, Find(task, Bracket, SkipSpaces(task, i + 1)) + 1))
    ELSE <<task[i]>> \o SubCfg(task, i + 1)

\* WorkerAgent._clean_task(task)
CleanTask(task) == Strip(SubCfg(task, 1))

\* ResearchAgent._clean_query(task), the definition at l.134 that replaces
\* the one at l.57: re.sub is called with two arguments and raises
CleanQuery(task) == Raised("TypeError")

DirectiveFrame ==
    UNCHANGED <<tasks, queue, findings, agent_status, default_queue, agent_states,
                agent_messages, message_lists, active_agents, agent_counter, next_uuid,
                next_entry, processed, history, enq, handed, pops, triggered, early>>

\* process_task builds the subtask of its assignment and dispatches it
ProcessTask ==
    /\ pc[BrainHive] = "process_task"
    /\ ~loc[BrainHive].plain
    /\ pc' = [pc EXCEPT ![BrainHive] = "idle"]
    /\ ret' = [ret EXCEPT ![BrainHive] = Subtask(loc[BrainHive])]
    /\ UNCHANGED loc
    /\ DirectiveFrame

\* a description without header is submitted as it is
SubmitPlain ==
    /\ pc[BrainHive] = "process_task"
    /\ loc[BrainHive].plain
    /\ pc' = [pc EXCEPT ![BrainHive] = "idle"]
    /\ ret' = [ret EXCEPT ![BrainHive] = loc[BrainHive].task]
    /\ UNCHANGED loc
    /\ DirectiveFrame

\* WorkerAgent.process_task up to its first await: config and clean_task
\* of the description it has received
WorkerParse ==
    /\ pc[BrainHive] = "idle"
    /\ pc[WorkerAgent] = "idle"
    /\ pc' = [pc EXCEPT ![WorkerAgent] = "parsed"]
    /\ ret' = [ret EXCEPT ![WorkerAgent] = ParseCfgHeader(ret[BrainHive])]
    /\ loc' = [loc EXCEPT ![WorkerAgent] = [clean_task |-> CleanTask(ret[BrainHive])]]
    /\ DirectiveFrame

\* ResearchAgent.process_task with the same description: _parse_cfg_header
\* returns, _clean_query raises
ResearchParse ==
    /\ pc[BrainHive] = "idle"
    /\ pc[ResearchAgent] = "idle"
    /\ pc' = [pc EXCEPT ![ResearchAgent] = "raised"]
    /\ ret' = [ret EXCEPT ![ResearchAgent] = CleanQuery(ret[BrainHive])]
    /\ UNCHANGED loc
    /\ DirectiveFrame

\* the plan holds one assignment, with any name, role, model and system prompt
InitDirective ==
    /\ tasks = EmptyZ
    /\ queue = [q \in FaultQueues |-> EmptyZ]
    /\ enq = [q \in FaultQueues |-> <<>>]
    /\ handed = [q \in FaultQueues |-> <<>>]
    /\ default_queue = "task_queue"
    /\ findings = {}
    /\ agent_status = EmptyZ
    /\ agent_states = EmptyZ
    /\ agent_messages = EmptyZ
    /\ message_lists = EmptyZ
    /\ next_uuid = 1
    /\ next_entry = 1
    /\ pc = [p \in {BrainHive, WorkerAgent, ResearchAgent} |->
                IF p = BrainHive THEN "process_task" ELSE "idle"]
    /\ \E name \in StringsUpTo(MaxFieldLen), role \in StringsUpTo(MaxFieldLen),
          model \in StringsUpTo(MaxFieldLen), system_prompt \in StringsUpTo(MaxPromptLen),
          task \in TaskTexts, plain \in BOOLEAN :
          /\ plain => name = <<>> /\ role = <<>> /\ model = <<>> /\ system_prompt = <<>>
          /\ loc = [p \in {BrainHive, WorkerAgent, ResearchAgent} |->
                       IF p = BrainHive
                       THEN [name |-> name, role |-> role, model |-> model,
                             system_prompt |-> system_prompt, task |-> task,
                             plain |-> plain]
                       ELSE NoLoc]
    /\ ret = [p \in {BrainHive, WorkerAgent, ResearchAgent} |-> NoId]
    /\ processed = {}
    /\ history = FALSE
    /\ pops = 0
    /\ triggered = {}
    /\ early = {}
    /\ active_agents = <<>>
    /\ agent_counter = 0

NextDirective ==
    \/ ProcessTask
    \/ SubmitPlain
    \/ WorkerParse
    \/ ResearchParse

SpecDirective == InitDirective /\ [][NextDirective]_vars

\* ------------------------------------------------ BrainHive: planning
\* The response of the planning call is modelled by its shape: the call
\* raises, the response is no dict, it lacks agent_count or assignments, or
\* it is a dict with an agent_count and a list of assignments, each of which
\* has or lacks the keys role and task (the keys name, system_prompt and model
\* are filled in by _create_agent_plan).  AgentFactory has no ensure_agents;
\* the call is read as the capacity call of the factory and returns.
MaxAgentCount == 5

AssignmentShapes == [role : BOOLEAN, task : BOOLEAN]

AssignmentLists == UNION {[1..k -> AssignmentShapes] : k \in 0..MaxAssignments}

Responses ==
    {[kind |-> k, agent_count |-> 0, assignments |-> <<>>] :
        k \in {"raises", "not_dict", "missing_keys"}}
    \cup {[kind |-> "dict", agent_count |-> c, assignments |-> l] :
             c \in 0..(MaxAssignments + 1), l \in AssignmentLists}

Max(a, b) == IF a > b THEN a ELSE b

\* _fallback_plan(request)
FallbackPlan ==
    [agent_count |-> 3,
     assignments |-> [k \in 1..3 |-> [role |-> TRUE, task |-> TRUE]]]

\* _create_agent_plan(request) on a response that arrived: ValueError for a
\* response that is no dict or lacks a key; else agent_count is clamped to
\* 1..5 and the assignments are cut to that many
CreateAgentPlan(response) ==
    IF response.kind # "dict" THEN Raised("ValueError")
    ELSE LET agent_count == Max(1, Min(response.agent_count, MaxAgentCount))
             assignments == IF Len(response.assignments) # agent_count
                            THEN SubSeq(response.assignments, 1,
                                        Min(agent_count, Len(response.assignments)))
                            ELSE response.assignments
         IN [agent_count |-> agent_count, assignments |-> assignments]

\* the plan process_task goes on with: the fallback where the call or
\* _create_agent_plan raised
PlanOf(response) ==
    IF response.kind # "dict" THEN FallbackPlan
    ELSE CreateAgentPlan(response)

\* the parent task the orchestrator holds
PlanTask == Uuid(1)

\* process_task(task) of a request that is no SYNTHESIZE: the planning call
\* is awaited
PlanStart ==
    /\ pc[BrainHive] = "idle"
    /\ ret[BrainHive] = NoId
    /\ Goto(BrainHive, "plan_llm", NoLoc)
    /\ UNCHANGED <<tasks, queue, findings, agent_status, default_queue, agent_states,
                   agent_messages, message_lists, active_agents, agent_counter, next_uuid,
                   next_entry, enq, handed, processed, history, pops, triggered, early>>

\* the planning call has ended with response: the plan is made, or the
\* fallback plan taken in the except clause; ensure_agents is awaited
PlanResume(response) ==
    /\ pc[BrainHive] = "plan_llm"
    /\ Goto(BrainHive, "plan_ensure", [plan |-> PlanOf(response)])
    /\ UNCHANGED <<tasks, queue, findings, agent_status, default_queue, agent_states,
                   agent_messages, message_lists, active_agents, agent_counter, next_uuid,
                   next_entry, enq, handed, processed, history, pops, triggered, early>>

\* ensure_agents has returned: the headers are built, where
\* assignment["role"] or assignment["task"] of an assignment without that
\* key raises KeyError out of process_task; then decompose_task(task_id,
\* subtasks) runs to its first await: the create_task of the first subtask,
\* or the update of the parent where there is no subtask
PlanDecompose ==
    /\ pc[BrainHive] = "plan_ensure"
    /\ LET assignments == loc[BrainHive].plan.assignments
           n == Len(assignments)
       IN
       IF \E k \in 1..n : ~assignments[k].role \/ ~assignments[k].task
       THEN /\ Return(BrainHive, Raised("KeyError"))
            /\ UNCHANGED <<tasks, next_uuid>>
       ELSE IF n = 0
       THEN /\ Goto(BrainHive, "dec_parent", [NoLoc EXCEPT !.parent = PlanTask])
            /\ UNCHANGED <<tasks, next_uuid>>
       ELSE /\ next_uuid' = next_uuid + n
            /\ tasks' = InsertTask(tasks, Uuid(next_uuid),
                                   NewTask(<<"d">>, 5, "research_subtask"))
            /\ Goto(BrainHive, "submit_push",
                    [NoLoc EXCEPT !.task_id = Uuid(next_uuid), !.priority = 5,
                                  !.queue_name = SubmitQueue("research_subtask"),
                                  !.after = "dec_link", !.parent = PlanTask, !.i = 1,
                                  !.ids = [k \in 1..n |-> Uuid(next_uuid + k - 1)]])
    /\ UNCHANGED <<queue, findings, agent_status, default_queue, agent_states,
                   agent_messages, message_lists, active_agents, agent_counter,
                   next_entry, enq, handed, processed, history, pops, triggered, early>>

\* the last await of decompose_task, the update of the parent's subtasks;
\* then process_task returns its report with status plan_created
PlanReturn ==
    /\ pc[BrainHive] = "dec_parent"
    /\ tasks' = IF HasTask(tasks, loc[BrainHive].parent)
                THEN [tasks EXCEPT ![loc[BrainHive].parent].subtasks =
                                       loc[BrainHive].subtask_ids]
                ELSE tasks
    /\ Return(BrainHive, <<"plan_created">>)
    /\ UNCHANGED <<queue, findings, agent_status, default_queue, agent_states,
                   agent_messages, message_lists, active_agents, agent_counter, next_uuid,
                   next_entry, enq, handed, processed, history, pops, triggered, early>>

\* _execute_task of the orchestrator after process_task has ended: a result
\* is stored in the Task with COMPLETED and progress 1.0 and _complete_task
\* writes it with update_task (an error of which is caught and ignored); an
\* exception sets FAILED and _fail_task writes that
ExecutePlanTask(db_ok) ==
    /\ pc[BrainHive] = "idle"
    /\ ret[BrainHive] # NoId
    /\ LET claimed == ClaimedTask(tasks[PlanTask], PlanTask, BrainHive)
           task == IF IsRaised(ret[BrainHive])
                   THEN [claimed EXCEPT !.status = "failed",
                                        !.assigned_agents = tasks[PlanTask].assigned_agents]
                   ELSE [claimed EXCEPT !.status = "completed", !.progress = 1,
                                        !.results = ret[BrainHive],
                                        !.assigned_agents = tasks[PlanTask].assigned_agents]
       IN tasks' = IF db_ok
                   THEN [tasks EXCEPT ![PlanTask] = UpdateTaskFields(@, task)]
                   ELSE tasks
    /\ pc' = [pc EXCEPT ![BrainHive] = "ended"]
    /\ UNCHANGED <<loc, ret>>
    /\ UNCHANGED <<queue, findings, agent_status, default_queue, agent_states,
                   agent_messages, message_lists, active_agents, agent_counter, next_uuid,
                   next_entry, enq, handed, processed, history, pops, triggered, early>>

\* the orchestrator has claimed the task PlanTask
InitPlan ==
    /\ tasks = InsertTask(EmptyZ, PlanTask,
                          [NewTask(<<"r">>, 9, "human_request") EXCEPT
                               !.status = "in_progress",
                               !.assigned_agents = <<BrainHive>>])
    /\ queue = [q \in QueueNames |-> EmptyZ]
    /\ findings = {}
    /\ agent_status = [a \in {BrainHive} |-> "working"]
    /\ default_queue = "task_queue"
    /\ next_uuid = 2
    /\ next_entry = 1
    /\ pc = [p \in {BrainHive} |-> "idle"]
    /\ loc = [p \in {BrainHive} |-> NoLoc]
    /\ ret = [p \in {BrainHive} |-> NoId]
    /\ enq = [q \in QueueNames |-> <<>>]
    /\ handed = [q \in QueueNames |-> <<>>]
    /\ processed = {}
    /\ history = FALSE
    /\ pops = 0
    /\ triggered = {}
    /\ early = {}
    /\ active_agents = <<>>
    /\ agent_counter = 0
    /\ agent_states = EmptyZ
    /\ agent_messages = EmptyZ
    /\ message_lists = EmptyZ

NextPlan ==
    \/ PlanStart
    \/ \E response \in Responses : PlanResume(response)
    \/ PlanDecompose
    \/ SubmitPush(BrainHive)
    \/ SubmitPushDefault(BrainHive)
    \/ DecLink(BrainHive)
    \/ SubmitCreate(BrainHive)
    \/ PlanReturn
    \/ \E db_ok \in BOOLEAN : ExecutePlanTask(db_ok)

SpecPlan == InitPlan /\ [][NextPlan]_vars

\* ---------------------------------------------------------------- claims
Ids(entries) == {entries[k].task_id : k \in 1..Len(entries)}

InClaim(a) == pc[a] \in {"claim_get", "claim_update", "claim_status"}

\* C1: with K entries queued and agents claiming concurrently, no entry is
\* handed out twice, an entry handed out has left the queue, two claims in
\* flight on one queue hold different entries, and the entries handed out
\* and those still queued add up to K.
C1_ExclusiveClaim ==
    /\ \A q \in QueueNames :
          /\ \A i, j \in 1..Len(handed[q]) :
                i # j => handed[q][i].task_id # handed[q][j].task_id
          /\ Ids(handed[q]) \cap DOMAIN queue[q] = {}
          /\ Len(handed[q]) + Cardinality(DOMAIN queue[q]) = Cardinality(Ids(enq[q]))
    /\ \A a, b \in Agents :
          (a # b /\ InClaim(a) /\ InClaim(b) /\ loc[a].queue_name = loc[b].queue_name)
             => loc[a].task_id # loc[b].task_id

C1_Witness ==
    /\ pc["a1"] = "claim_get" /\ pc["a2"] = "claim_get"
    /\ loc["a1"].queue_name = loc["a2"].queue_name
    /\ Len(handed[loc["a1"].queue_name]) = 2
    /\ DOMAIN queue[loc["a1"].queue_name] = {}

\* C6: every pop takes an entry whose priority is the highest in its queue,
\* and three entries added with priorities 3, 9, 5 in that order come back
\* from the next three pops as 9, 5, 3.
Scores(entries) == [k \in 1..Len(entries) |-> entries[k].score]

C6_PriorityOrdering ==
    /\ [][\A q \in QueueNames :
            Len(handed'[q]) = Len(handed[q]) + 1
               => \A m \in DOMAIN queue[q] :
                     queue[q][m] <= handed'[q][Len(handed'[q])].score]_vars
    /\ [](\A q \in QueueNames :
            ( /\ Scores(enq[q]) = <<3, 9, 5>>
              /\ Cardinality(Ids(enq[q])) = 3
              /\ Len(handed[q]) = 3
              /\ \A k \in 1..3 : handed[q][k].at = 3 )
            => Scores(handed[q]) = <<9, 5, 3>>)

C6_Witness ==
    /\ Scores(enq["research_queue"]) = <<3, 9, 5>>
    /\ Cardinality(Ids(enq["research_queue"])) = 3
    /\ Len(handed["research_queue"]) = 3
    /\ \A k \in 1..3 : handed["research_queue"][k].at = 3

\* C9: a claim that popped an entry and loaded its task leaves the task
\* in_progress with the claiming agent appended to assigned_agents, and
\* returns that task.
C9_ClaimReturnsTask ==
    [][\A a \in Agents :
         /\ (pc[a] = "claim_update" /\ pc'[a] = "claim_status")
               => /\ tasks'[loc[a].task_id].status = "in_progress"
                  /\ tasks'[loc[a].task_id].assigned_agents =
                        Append(tasks[loc[a].task_id].assigned_agents, a)
         /\ (pc[a] = "claim_status" /\ pc'[a] = "idle")
               => /\ ret'[a] = loc[a].task_id
                  /\ tasks'[loc[a].task_id].status = "in_progress"]_vars

\* the complete_task calls that are between their first write and their return
InComplete(a) ==
    pc[a] \in {"comp_findings", "comp_status", "comp_get", "chk_parent", "chk_sub",
               "syn_create", "syn_push"}

Triggered(parent) == {x \in triggered : x.parent = parent}

\* C2: completions of two different subtasks of one parent never both create
\* and enqueue a synthesis task for that parent.
C2_SynthesisOnce ==
    \A x, y \in triggered : (x.parent = y.parent /\ x.sub # y.sub) => x.entry = y.entry

\* C3: once decompose_task has listed the subtasks of T, every one of them has
\* been completed after that and no complete_task call is still running,
\* exactly one synthesis task has been created and enqueued for T.
C3_RoundTrip ==
    \A t \in DOMAIN tasks :
        ( /\ tasks[t].subtasks # <<>>
          /\ \A k \in 1..Len(tasks[t].subtasks) :
                /\ HasTask(tasks, tasks[t].subtasks[k])
                /\ tasks[tasks[t].subtasks[k]].status = "completed"
                /\ tasks[t].subtasks[k] \notin early
          /\ \A a \in Agents : ~InComplete(a) )
        => Cardinality(Triggered(t)) = 1

\* C4: once process_task has run on the synthesis task of T, T is completed
\* and get_task_status reports results for it that are not null.
C4_SynthesisCompletesParent ==
    \A t \in DOMAIN tasks :
        SynthesisId(t) \in processed
           => tasks[t].status = "completed" /\ StatusResults(tasks[t]) # Null

StatusRank(status) ==
    IF status = "pending" THEN 0 ELSE IF status = "in_progress" THEN 1 ELSE 2

ConsumerQueue(task_type) ==
    IF task_type = "human_request" THEN ClaimQueue("planner") ELSE ClaimQueue("research")

InSubmit(p) == pc[p] \in {"submit_push", "submit_push_default"}

EntriesFor(t) ==
    UNION {{<<q, k>> : k \in {i \in DOMAIN enq[q] : enq[q][i].task_id = t}} :
             q \in QueueNames}

\* C10: an entry is only ever enqueued for a task that is persisted, and once
\* submit_task has returned for a task exactly one entry has been enqueued
\* for it, with the task's priority as score, in the queue its consumers
\* claim from.
C10_SubmitOneEntry ==
    /\ \A q \in QueueNames : \A k \in 1..Len(enq[q]) : HasTask(tasks, enq[q][k].task_id)
    /\ \A t \in DOMAIN tasks :
          (\A p \in Procs : ~(InSubmit(p) /\ loc[p].task_id = t))
             => /\ Cardinality(EntriesFor(t)) = 1
                /\ \A e \in EntriesFor(t) :
                      /\ e[1] = ConsumerQueue(tasks[t].task_type)
                      /\ enq[e[1]][e[2]].score = tasks[t].priority

InShrink(p) == pc[p] \in {"shrink_status", "shrink_decide", "shrink_stop"}

\* C7: a shrink_idle call takes an agent out of the registry only while the
\* registry holds at least two, takes out one at a time, and never leaves a
\* registry that held an agent empty.
C7_IdleFloor ==
    [][\A p \in Callers :
         (pc[p] = "shrink_decide" /\ pc'[p] # "shrink_decide")
            => /\ Len(active_agents) >= 1 => Len(active_agents') >= 1
               /\ active_agents' # active_agents
                     => /\ Len(active_agents) >= 2
                        /\ Len(active_agents') = Len(active_agents) - 1]_vars

C7_Witness ==
    \E p \in Callers :
        /\ pc[p] = "shrink_decide"
        /\ Len(loc[p].snapshot) = 2
        /\ loc[p].i = 2
        /\ loc[p].removed = 1
        /\ loc[p].status = "idle"
        /\ active_agents = <<loc[p].snapshot[2]>>

\* C8: the registry never holds more than max_agents agents.
C8_CapacityCeiling == Len(active_agents) <= max_agents

C8_Witness ==
    \E p, q \in Callers :
        /\ ret[p] # NoId
        /\ ret[p].required > max_agents
        /\ ret[p].spawned >= 1
        /\ Len(active_agents) = max_agents
        /\ InShrink(q)

\* the ids that were drawn for a task whose row was never written
Unwritten == {Uuid(n) : n \in 1..(next_uuid - 1)} \ DOMAIN tasks

\* C11: when the durable write of a submission fails, the call ends there
\* with a failure (an exception or False, never the task id), that step
\* adds no queue entry, and no queue ever holds an entry for the task.
C11_PersistenceFailure ==
    /\ [][\A p \in Clients :
            (pc[p] = "idle" /\ next_uuid' # next_uuid /\ tasks' = tasks)
               => /\ pc'[p] = "idle"
                  /\ IsRaised(ret'[p]) \/ ret'[p] = PyFalse
                  /\ queue' = queue
                  /\ enq' = enq]_vars
    /\ [](\A t \in Unwritten : \A q \in DOMAIN queue :
             /\ t \notin DOMAIN queue[q]
             /\ \A k \in 1..Len(enq[q]) : enq[q][k].task_id # t)

C11_Witness ==
    \E p \in Clients :
        /\ pc[p] = "idle"
        /\ ret[p] = Raised("create_task")
        /\ Uuid(next_uuid - 1) \in Unwritten
        /\ \E q \in DOMAIN queue : DOMAIN queue[q] # {}

\* C12: once the durable write of submit_task has succeeded, submit_task
\* returns the task id to its caller whether or not its pushes succeed, and
\* the row stays in the store.
C12_EnqueueBestEffort ==
    [][\A p \in Clients :
         (pc[p] \in {"submit_push", "submit_push_default"} /\ pc'[p] = "idle")
            => /\ ret'[p] = loc[p].task_id
               /\ HasTask(tasks', loc[p].task_id)]_vars

\* C13: complete_task writes status completed, the given results and
\* progress 1.0 to the task, then records a finding for the task and the
\* agent; the check of the parent's subtasks starts only after these writes.
C13_CompleteThenCheck ==
    [][\A a \in Agents :
         /\ (pc[a] = "idle" /\ loc'[a].call = "complete")
               => /\ tasks'[loc'[a].task_id].status = "completed"
                  /\ tasks'[loc'[a].task_id].results = JsonDumps(loc'[a].results)
                  /\ StatusResults(tasks'[loc'[a].task_id]) = loc'[a].results
                  /\ tasks'[loc'[a].task_id].progress = 1
         /\ (loc[a].call = "complete" /\ pc[a] = "comp_findings" /\ pc'[a] # "comp_findings")
               => <<loc[a].task_id, a>> \in findings'
         /\ (loc[a].call = "complete" /\ pc[a] # "chk_parent" /\ pc'[a] = "chk_parent")
               => /\ pc[a] = "comp_get"
                  /\ <<loc[a].task_id, a>> \in findings]_vars

C13_Witness ==
    \E a \in Agents :
        /\ pc[a] = "chk_parent"
        /\ loc[a].call = "complete"
        /\ <<loc[a].task_id, a>> \in findings
        /\ tasks[loc[a].task_id].status = "completed"

\* the statuses of models/task.py that end a task's processing
Terminal(status) == status \in {"completed", "failed", "cancelled"}

\* every subtask t lists has a row in one of the given statuses, reached
\* after t listed it, and no complete or fail call is still running
AllSubtasks(t, statuses) ==
    /\ tasks[t].subtasks # <<>>
    /\ \A k \in 1..Len(tasks[t].subtasks) :
          /\ HasTask(tasks, tasks[t].subtasks[k])
          /\ tasks[tasks[t].subtasks[k]].status \in statuses
          /\ tasks[t].subtasks[k] \notin early
    /\ \A a \in Agents : ~InComplete(a)

\* C15: once every subtask a parent lists has reached completed or failed
\* (after being listed) and no call is still running, a synthesis task has
\* been created and enqueued for the parent, also when some subtask failed.
C15_FailedCountsTerminal ==
    \A t \in DOMAIN tasks :
        AllSubtasks(t, {"completed", "failed"}) => Triggered(t) # {}

\* C16: once a task's subtasks list is not empty, no step changes it.
C16_SubtasksSetOnce ==
    [][\A t \in DOMAIN tasks :
         tasks[t].subtasks # <<>> => tasks'[t].subtasks = tasks[t].subtasks]_vars

\* the queues claim_task pops from
PolledQueues == {ClaimQueue(agent_type) : agent_type \in AgentTypes}

C14_FailureRecorded ==
    [][\A a \in Workers :
          (/\ loc[a].body = "process"
           /\ loc'[a].body = "broadcast"
           /\ loc'[a].outcome \in {"soft", "raise"})
             => LET id == loc[a].body_task.id IN
                /\ HasTask(tasks', id)
                /\ tasks'[id].status = "failed"
                /\ tasks'[id].results # Null]_vars

\* C19: once stop() has set an agent's status to offline, the status stays
\* offline, also when a task body that was running at the time of stop()
\* ends afterwards.
C19_OfflineTerminal ==
    [][\A a \in Workers :
          (loc[a].stop # "none" /\ loc[a].status = "offline")
             => loc'[a].status = "offline"]_vars

\* C20: only stop() ends the polling loop.  The loop is left only at its test,
\* with running false; running becomes false only in stop(); the sleep after
\* a failed iteration leads back to the test; and after a failed iteration or
\* a failed task body the loop reaches its test again and, unless the agent
\* was stopped, starts another iteration.
C20_OnlyStopEndsLoop ==
    /\ [][\A a \in Workers :
            /\ (pc[a] \in InLoop /\ pc'[a] \notin InLoop)
                  => (pc[a] = "head" /\ ~loc[a].running /\ loc[a].stop # "none")
            /\ (loc[a].running /\ ~loc'[a].running)
                  => (loc[a].stop = "none" /\ loc'[a].stop = "write")
            /\ (pc[a] = "backoff" /\ pc'[a] # "backoff") => pc'[a] = "head"]_vars
    /\ \A a \in Workers :
          (pc[a] = "backoff") ~> (pc[a] = "messages" \/ ~loc[a].running)
    /\ \A a \in Workers :
          (loc[a].body = "broadcast" /\ loc[a].outcome # "ok" /\ pc[a] # "messages")
             ~> (pc[a] = "messages" \/ ~loc[a].running)

\* an iteration has failed after a task body of the agent has failed, and the
\* agent, which was not stopped, is in the sleep before its next iteration
C20_Witness ==
    \E a \in Workers :
       /\ pc[a] = "backoff"
       /\ loc[a].running
       /\ loc[a].stop = "none"
       /\ \E t \in DOMAIN tasks :
             /\ tasks[t].status = "failed"
             /\ \E k \in 1..Len(tasks[t].assigned_agents) :
                   tasks[t].assigned_agents[k] = a

\* C21: an agent whose status is working for a task later has no current
\* task and status idle, whatever the outcome of the task body and of its
\* store write and broadcast.
C21_WorkingReturnsIdle ==
    \A a \in Workers :
       (loc[a].status = "working")
          ~> (loc[a].status = "idle" /\ loc[a].current_task = NoId)

C23_StopKeepsClaimed ==
    [][\A a \in Workers :
          /\ (loc[a].stop = "none" /\ loc'[a].stop # "none")
                => /\ loc'[a].body = loc[a].body
                   /\ loc'[a].body_task = loc[a].body_task
                   /\ loc'[a].current_task = loc[a].current_task
          /\ (/\ pc[a] = "claim_resume"
              /\ pc'[a] # "claim_resume"
              /\ HasTask(tasks', loc[a].claimed)
              /\ tasks'[loc[a].claimed].status = "in_progress"
              /\ tasks'[loc[a].claimed] # tasks[loc[a].claimed])
                => loc'[a].current_task = loc[a].claimed]_vars

\* agent numbers around the widths of the format of the id
IdProbe == (1..MaxCounter) \cup {9, 10, 11, 99, 100, 101, 999, 1000}

C26_RegistryConsistent ==
    [][/\ \A p \in Callers :
             /\ (/\ pc[p] = "shrink_decide"
                 /\ pc'[p] # "shrink_decide"
                 /\ loc[p].status = "idle"
                 /\ AboveFloor(Len(active_agents)))
                   => Registered(active_agents, loc[p].snapshot[loc[p].i])
             /\ (pc[p] = "shutdown_stop" /\ (pc'[p] # pc[p] \/ loc'[p] # loc[p]))
                   => Len(active_agents) = loc[p].n
       /\ \A k \in 1..Len(active_agents) :
             ~Registered(active_agents', active_agents[k])
                => \/ \E p \in Callers :
                         pc'[p] = "shrink_stop" /\ loc'[p].agent = active_agents[k]
                   \/ agent_status'[active_agents[k]] = "offline"]_vars

\* C24: when shutdown_all returns, the registry is empty and every agent
\* that was in it has running false and its stop() behind it; and an agent
\* that was stopped and is out of the registry never has running true again
\* and never pops the queue again.
C24_ShutdownFinal ==
    [][/\ \A p \in Callers :
             (pc[p] = "shutdown_stop" /\ pc'[p] = "idle")
                => /\ active_agents' = <<>>
                   /\ \A k \in 1..Len(active_agents) :
                         /\ ~loc'[active_agents[k]].running
                         /\ loc'[active_agents[k]].stop = "done"
       /\ \A a \in FactoryAgents :
             (loc[a].stop = "done" /\ ~Registered(active_agents, a))
                => /\ ~loc'[a].running
                   /\ ~(pc[a] = "check" /\ pc'[a] = "claim_resume")]_vars

\* C27: a status write goes to the cache first and to the table second: the
\* first write of a call leaves the table alone; a call that has written the
\* table reports success, whatever the cache did; and a call that reports
\* failure has not written the table.
C27_CacheFirstDurableSecond ==
    [][\A p \in StatusCallers :
          /\ (pc[p] = "idle" /\ pc'[p] = "status_hset") => agent_states' = agent_states
          /\ (pc[p] = "status_hset" /\ pc'[p] = "idle") => ret'[p] = PyTrue
          /\ (pc[p] = "idle" /\ pc'[p] = "idle" /\ ret'[p] = PyFalse /\ ret'[p] # ret[p])
                => agent_states' = agent_states]_vars

\* C28: every row of agent_messages has exactly one kind of recipient: either
\* to_agent or holon_broadcast is set, never both and never neither
C28_OneRecipient ==
    \A m \in DOMAIN agent_messages :
        (agent_messages[m].to_agent = None) # (agent_messages[m].holon_broadcast = None)

\* C29: every stored message is eventually marked processed or removed from
\* the table
C29_ProcessedOrExpired ==
    \A n \in 1..MaxMessages :
        (Uuid(n) \in DOMAIN agent_messages)
            ~> (Uuid(n) \notin DOMAIN agent_messages \/ agent_messages[Uuid(n)].processed)

\* C30: the four fields the worker parses from the header are the four
\* fields of the assignment the header was built from
C30_RoundTrip ==
    pc[WorkerAgent] = "parsed" /\ ~loc[BrainHive].plain =>
        /\ ret[WorkerAgent].name = loc[BrainHive].name
        /\ ret[WorkerAgent].role = loc[BrainHive].role
        /\ ret[WorkerAgent].model = loc[BrainHive].model
        /\ ret[WorkerAgent].system_prompt = loc[BrainHive].system_prompt

\* C31: the clean task text the worker obtains is the task text the
\* description was built from, and a description without header gives a
\* configuration with no key set
C31_HeaderStripped ==
    pc[WorkerAgent] = "parsed" =>
        /\ loc[WorkerAgent].clean_task = loc[BrainHive].task
        /\ loc[BrainHive].plain =>
              ret[WorkerAgent] = [name |-> Missing, role |-> Missing, model |-> Missing,
                                  system_prompt |-> Missing]

\* C32: process_task of the orchestrator never ends with an exception, and
\* when it has ended the parent lists at least one subtask and as many
\* subtasks as the plan it used has assignments
C32_PlanningProgress ==
    /\ ~IsRaised(ret[BrainHive])
    /\ ret[BrainHive] = <<"plan_created">> => tasks[PlanTask].subtasks # <<>>

\* C33: while no agent is stopped, a task whose entry an agent has popped is
\* eventually the current task of an agent, or no longer pending, or in the
\* queue again
C33_AtLeastOnce ==
    ([](\A a \in Workers : loc[a].stop = "none"))
        => \A n \in 1..MaxCalls : \A a \in Workers :
              (loc[a].claimed = Uuid(n))
                  ~> \/ \E b \in Workers : loc[b].current_task = Uuid(n)
                     \/ Uuid(n) \in DOMAIN queue[SharedQueue]
                     \/ HasTask(tasks, Uuid(n)) /\ tasks[Uuid(n)].status # "pending"

\* C34: the task_id of every entry of every queue is the id of a row of the
\* tasks table
C34_EntriesPersisted ==
    \A q \in DOMAIN queue : \A id \in DOMAIN queue[q] : HasTask(tasks, id)

\* every listed subtask of t is a row whose status is completed
AllSubtasksComplete(t) ==
    /\ tasks[t].subtasks # <<>>
    /\ \A k \in 1..Len(tasks[t].subtasks) :
          /\ HasTask(tasks, tasks[t].subtasks[k])
          /\ SubtaskDone(tasks[tasks[t].subtasks[k]])

\* decompose_task running beside claim_task and complete_task of the workers
NextRace ==
    \/ \E p \in Clients, priority \in SubmitPriorities :
          SubmitStart(p, <<"r">>, priority, "human_request")
    \/ \E p \in Procs : SubmitPush(p)
    \/ \E p \in Procs : SubmitPushDefault(p)
    \/ \E a \in Agents, agent_type \in AgentTypes :
          ClaimStart(a, agent_type, MaxClaims)
    \/ \E a \in Agents : ClaimGet(a)
    \/ \E a \in Agents : ClaimUpdate(a)
    \/ \E a \in Agents : ClaimStatus(a)
    \/ \E a \in Agents, t \in DOMAIN tasks : CompleteStart(a, t, <<"ok">>)
    \/ \E a \in Agents : CompFindings(a)
    \/ \E a \in Agents : CompStatus(a)
    \/ \E a \in Agents : CompGet(a)
    \/ \E a \in Agents : ChkParent(a)
    \/ \E a \in Agents : ChkSub(a)
    \/ \E a \in Agents : SynCreate(a)
    \/ \E a \in Agents : SynPush(a)
    \/ \E a \in Agents, t \in DOMAIN tasks, n \in 1..MaxSub : DecomposeStart(a, t, n)
    \/ \E a \in Agents : DecLink(a)
    \/ \E a \in Agents : SubmitCreate(a)
    \/ \E a \in Agents : DecParent(a)

\* every call that has started runs to its end
SpecRace == Init /\ [][NextRace]_vars /\ WF_vars(NextRace)

\* C35: once every subtask of a decomposed parent is completed, the synthesis
\* task of that parent is eventually created, also when subtasks were
\* completed before decompose_task had linked or listed them
C35_SynthesisNotLost ==
    \A n \in 1..MaxUuid :
        (HasTask(tasks, Uuid(n)) /\ AllSubtasksComplete(Uuid(n)))
            ~> HasTask(tasks, SynthesisId(Uuid(n)))

\* C36: while a subtask of the decomposed task is pending or in_progress the
\* task is not completed; it is completed only once its synthesis task has
\* been processed, not when the process_task that decomposed it has returned
C36_ParentNotCompletedEarly ==
    (HasTask(tasks, PlanTask) /\ tasks[PlanTask].status = "completed")
        => /\ \A k \in 1..Len(tasks[PlanTask].subtasks) :
                 LET sub == tasks[PlanTask].subtasks[k] IN
                 HasTask(tasks, sub) => tasks[sub].status \notin {"pending", "in_progress"}
           /\ SynthesisId(PlanTask) \in processed

\* save_findings has recorded a finding for task t
HasFinding(t) == \E f \in findings : f[1] = t

\* C37: at the step in which trigger_final_synthesis creates the synthesis
\* task of a parent, a finding is recorded for every subtask of the parent
\* that check_all_subtasks_complete has found completed
C37_FindingsBeforeSynthesis ==
    [][\A a \in Agents :
         (pc[a] = "syn_create" /\ pc'[a] = "syn_push")
            => \A k \in 1..Len(loc[a].subtask_ids) : HasFinding(loc[a].subtask_ids[k])]_vars

\* C38: the agent shrink_idle takes out of the registry and stops is not
\* working on a task at that step, whatever the cache said when it was read
C38_WorkingNotEvicted ==
    [][(pc[Owner] = "shrink_decide" /\ pc'[Owner] = "shrink_stop")
          => LET a == loc'[Owner].agent IN
             ~(loc[a].status = "working" /\ loc[a].current_task # NoId)]_vars

\* C39: in every state an agent's status is working exactly when its
\* current_task is set
C39_WorkingIffCurrentTask ==
    \A a \in Workers : (loc[a].status = "working") <=> (loc[a].current_task # NoId)

\* C40: a stored message that is broadcast to a holon is eventually among the
\* messages each agent of that holon gets and handles
C40_EveryMemberHandles ==
    \A n \in 1..MaxMessages : \A a \in Agents :
        ( /\ Uuid(n) \in DOMAIN agent_messages
          /\ agent_messages[Uuid(n)].to_agent = None
          /\ agent_messages[Uuid(n)].holon_broadcast = HolonOf[a] )
            ~> (pc[a] = "idle" /\ \E k \in 1..Len(ret[a]) : ret[a][k] = Uuid(n))

====
